---- MODULE Spec2Model ----
(***************************************************************************)
(* The procedural map and challenge generator of math-cash.                *)
(*                                                                         *)
(*   packages/shared/src/game-logic.ts  generateTileMap with challenge     *)
(*                                      tiles (variant "tiles")            *)
(*   unnamed/part_008                   the same module with wandering     *)
(*                                      mobs (variant "mobs")              *)
(*   unnamed/part_010                   utils: randomInt, generateOperands,*)
(*                                      calculateAnswer                    *)
(*   apps/frontend/src/phaser/scenes    the Phaser game: MainScene and its *)
(*                                      managers (SPECIFICATION SpecGame)  *)
(*   apps/frontend/src/context          the React game: the reducer of     *)
(*                                      GameContext.tsx and GamePage.tsx   *)
(*                                                                         *)
(* A cell is <<x, y>>.  The boolean grid `maze` of generateMazePaths is    *)
(* the set of its true cells; a JavaScript row that an out-of-range column *)
(* index extends holds cells outside the width x height grid, and a write  *)
(* into a row that does not exist raises a TypeError.                      *)
(* Math.random() is a nondeterministic choice: randomInt picks any value   *)
(* it can return, and sort(() => Math.random() - 0.5) any order.           *)
(***************************************************************************)
EXTENDS Integers, Sequences, FiniteSets, TLC

VARIABLES
    pc,             \* position of the running call
    variant,        \* "tiles" (game-logic.ts) or "mobs" (part_008)
    width, height, difficulty,      \* arguments of generateTileMap
    maze,           \* generateMazePaths: the open cells
    stack,          \* carvePath: the cells of the active recursive calls
    cur,            \* carveFallbackPath: <<currentX, currentY>>
    steps,          \* carveFallbackPath: iterations of the while loop so far
    i,              \* loop index of addExtraOpenings, then of the placement loop
    challengeCount, \* generateTileMap: Math.floor(accessibleTiles * 0.3)
    tiles,          \* tiles[y][x] as a function of <<x, y>>
    mobs,           \* part_008: the mobs generated so far
    oob,            \* cells outside the grid that the call has indexed
    error,          \* the exception the call raised, "none" if it did not
    challenge,      \* result of generateRegularChallenge / generateBossChallenge
    call,           \* the function that was called
    implementation, \* getNextDifficulty: "shared" (game-logic.ts) or "context"
    first,          \* the tier the repeated application started from
    current,        \* the tier after `applications` applications
    applications,   \* number of applications of getNextDifficulty so far
    now,            \* Date.now() at its last evaluation, in milliseconds
    ids,            \* the ids of the challenges created for the map, in order
    phase,          \* GameStateManager.phase: "menu" or "play"
    session,        \* GameStateManager.session, NullSession for null
    previousPosition,   \* ChallengeManager.previousPosition, <<>> for null
    lastChallengeKey,   \* ChallengeManager.lastChallengeKey
    presented,      \* ChallengeController: the challenge on screen
    levelOverlay,   \* LevelOverlayController.active
    mobTimers,      \* MobController: "stopped", "running" or "paused"
    resetAnimation, \* animatePlayerResetToStart has a callback pending
    caller,         \* the game function that called generateTileMap
    state,          \* GameContext: state.session of the reducer
    currentChallenge,   \* GamePage: the id of the challenge in the modal
    edgeOpenings,   \* addExtraOpenings: the cells of the first or last row
                    \* or column that its loop has written
    controller,     \* ChallengeController: "immediate" (part_001) or "delayed"
                    \* (NumberPad.ts), the way it reports a failure
    active,         \* ChallengeController.active
    context,        \* ChallengeController.context, NoContext for undefined
    delayedCalls,   \* scene.time.delayedCall: the penalties of the calls
                    \* that are pending, in the order they were scheduled
    invoked         \* the callbacks of the presentation invoked so far

progressionVars == <<implementation, first, current, applications>>

idVars == <<now, ids>>

gameVars == <<phase, session, previousPosition, lastChallengeKey, presented,
              levelOverlay, mobTimers, resetAnimation, caller>>

contextVars == <<state, currentChallenge>>

\* The variables the map and challenge generator leaves alone
controllerVars == <<controller, active, context, delayedCalls, invoked>>

callerVars == <<progressionVars, gameVars, contextVars, controllerVars>>

\* The variables that every step but those of addExtraOpenings leaves alone
restVars == <<callerVars, edgeOpenings>>

vars == <<pc, variant, width, height, difficulty, maze, stack, cur, steps, i,
          challengeCount, tiles, mobs, oob, error, challenge, call, restVars, idVars>>

-----------------------------------------------------------------------------
(* Bounds of the model *)

MaxW == 4           \* widths 1..MaxW
MaxH == 4           \* heights 1..MaxH
MaxCells == 16      \* maps of at most MaxCells cells
MaxPlaced == 3      \* iterations of a placement loop the model follows

Widths == 1..MaxW
Heights == 1..MaxH
Variants == {"tiles", "mobs"}

-----------------------------------------------------------------------------
(* Difficulty tables *)

difficultyProgression ==
    <<"infant", "toddler", "beginner", "easy", "medium", "hard", "expert">>

DifficultyLevel == {difficultyProgression[k] : k \in 1..Len(difficultyProgression)}

MathOperation == {"addition", "subtraction", "multiplication", "division"}

\* Array.prototype.indexOf, 1-based: 0 where JavaScript returns -1
IndexOf(d) ==
    IF \E k \in 1..Len(difficultyProgression) : difficultyProgression[k] = d
    THEN CHOOSE k \in 1..Len(difficultyProgression) : difficultyProgression[k] = d
    ELSE 0

Min(a, b) == IF a < b THEN a ELSE b

\* A progression that wraps around to the first tier after the last
getNextDifficultyWrapping(d) ==
    difficultyProgression[(IndexOf(d) % Len(difficultyProgression)) + 1]

\* difficultyProgression[Math.min(currentIndex + 1, length - 1)], 1-based here
getNextDifficulty(d) ==
    difficultyProgression[Min(IndexOf(d) + 1, Len(difficultyProgression))]

allowedOperationsByDifficulty ==
    [d \in DifficultyLevel |->
        IF d \in {"infant", "toddler"} THEN <<"addition">>
        ELSE <<"addition", "subtraction", "multiplication", "division">>]

rewardMultipliers ==
    [infant |-> 5, toddler |-> 8, beginner |-> 10, easy |-> 15,
     medium |-> 25, hard |-> 40, expert |-> 60]

\* utils.generateOperands: the table has no entry for infant and toddler
ranges ==
    [beginner |-> [min |-> 1, max |-> 5],
     easy     |-> [min |-> 1, max |-> 10],
     medium   |-> [min |-> 5, max |-> 20],
     hard     |-> [min |-> 10, max |-> 50],
     expert   |-> [min |-> 20, max |-> 100]]

-----------------------------------------------------------------------------
(* utils.randomInt: Math.floor(Math.random() * (max - min + 1)) + min with  *)
(* Math.random() in [0, 1).  For max < min the factor is <= 0 and the       *)
(* result lies in max+1 .. min.                                             *)

randomInt(min, max) == IF max >= min THEN min..max ELSE (max + 1)..min

-----------------------------------------------------------------------------
(* Challenge ids: `challenge-${Date.now()}-${randomInt(1000, 9999)}` and    *)
(* `boss-${Date.now()}-${randomInt(1000, 9999)}`, kept as <<prefix, time,  *)
(* suffix>>.  An id space bounds the clock and the suffixes one run draws   *)
(* from: suffixes SuffixMin .. SuffixMin + SuffixCount - 1 stand for        *)
(* 1000 .. 9999, and the clock stops at maxNow.                             *)

SuffixMin == 1000
SuffixCount == 2
MaxNow == 1

IdSpace == [suffixes |-> SuffixMin..(SuffixMin + SuffixCount - 1), maxNow |-> MaxNow]

\* One clock value and one suffix: every id of a prefix is the same
OneId == [suffixes |-> {SuffixMin}, maxNow |-> 0]

\* Date.now(): the last value read or a later one
DateNow(space) == {t \in now..(now + 1) : t <= space.maxNow}

-----------------------------------------------------------------------------
(* Grid helpers *)

Grid(w, h) == (0..(w - 1)) \X (0..(h - 1))

isValid(x, y, w, h) == x >= 0 /\ x < w /\ y >= 0 /\ y < h

InGrid(c) == isValid(c[1], c[2], width, height)

StartPosition(h) == <<0, h - 1>>
BossPosition(w) == <<w - 1, 0>>

directions == {<<0, -2>>, <<2, 0>>, <<0, 2>>, <<-2, 0>>}
deltas == {<<0, -1>>, <<1, 0>>, <<0, 1>>, <<-1, 0>>}

Adjacent(a, b) == <<b[1] - a[1], b[2] - a[2]>> \in deltas

\* The cells a breadth-first search over `open` reaches from the cells of S
RECURSIVE ReachFrom(_, _)
ReachFrom(open, S) ==
    LET next == S \cup {n \in open : \E c \in S : Adjacent(c, n)}
    IN  IF next = S THEN S ELSE ReachFrom(open, next)

\* isPathAvailable: the search starts at start and steps on in-grid open cells
isPathAvailable(mz, start, end, w, h) ==
    end \in ReachFrom(mz \cap Grid(w, h), {start})

NoChallenge == [difficulty |-> "none", reward |-> 0]

\* A grid that starts with tiles marked accessible
BlockedTileAccessible ==
    [type |-> "blocked", isAccessible |-> TRUE, challenge |-> NoChallenge]

\* generateTileMap: a tile of the empty grid
BlockedTile == [type |-> "blocked", isAccessible |-> FALSE, challenge |-> NoChallenge]

-----------------------------------------------------------------------------
(* Challenge generation, as far as the map keeps it: the tier and reward.   *)

\* generateOperands reads range.min of ranges[difficulty]: a TypeError when
\* the table has no such tier
OperandsRaise(d) == d \notin DOMAIN ranges

\* generateRegularChallenge reads operations.length of
\* allowedOperationsByDifficulty[difficulty]: a TypeError when the table has
\* no such key
OperationsRaise(d) == d \notin DOMAIN allowedOperationsByDifficulty

\* A difficulty string that is none of the seven tiers, as a corrupted save
\* can hold
UnknownDifficulty == {"legendary"}

bossDifficultyOf(d) == getNextDifficulty(d)

RegularSummary(d) == [difficulty |-> d, reward |-> rewardMultipliers[d]]

\* A boss challenge that keeps the regular reward of its tier
BossSummaryUnscaled(d) ==
    [difficulty |-> bossDifficultyOf(d),
     reward |-> rewardMultipliers[bossDifficultyOf(d)]]

BossSummary(d) ==
    [difficulty |-> bossDifficultyOf(d),
     reward |-> rewardMultipliers[bossDifficultyOf(d)] * 3]

-----------------------------------------------------------------------------
\* No call has been made
GeneratorIdle ==
    /\ pc = "idle"
    /\ variant = "tiles"
    /\ width = 0
    /\ height = 0
    /\ difficulty = "infant"
    /\ maze = {}
    /\ stack = <<>>
    /\ cur = <<0, 0>>
    /\ steps = 0
    /\ i = 0
    /\ challengeCount = 0
    /\ tiles = <<>>
    /\ mobs = <<>>
    /\ oob = {}
    /\ error = "none"
    /\ challenge = NoChallenge
    /\ call = "none"
    /\ edgeOpenings = {}

IdsIdle ==
    /\ now = 0
    /\ ids = <<>>

ProgressionIdle ==
    /\ implementation = "shared"
    /\ first = "infant"
    /\ current = "infant"
    /\ applications = 0

\* GameStateManager.session === null
NullSession ==
    [player |-> [currentPosition |-> <<0, 0>>, completedMaps |-> <<>>,
                 currency |-> 0, coinMultiplierCharges |-> 0,
                 totalChallengesCompleted |-> 0, currentStreak |-> 0,
                 bestStreak |-> 0],
     currentMap |-> [id |-> 0, width |-> 0, height |-> 0, difficulty |-> "none",
                     tiles |-> <<>>, mobs |-> <<>>,
                     startPosition |-> <<0, 0>>, bossPosition |-> <<0, 0>>]]

\* ChallengeManager.lastChallengeKey === null
NoKey == <<"null", 0, 0, 0>>

\* ChallengeController.active === false
NotPresented == [kind |-> "none", mob |-> 0]

\* No call of generateTileMap by the game is running
NoCaller ==
    [function |-> "none", difficulty |-> "none", width |-> 0, height |-> 0,
     currency |-> 0]

\* MainScene.create with nothing in storage: the menu is shown
GameIdle ==
    /\ phase = "menu"
    /\ session = NullSession
    /\ previousPosition = <<>>
    /\ lastChallengeKey = NoKey
    /\ presented = NotPresented
    /\ levelOverlay = FALSE
    /\ mobTimers = "stopped"
    /\ resetAnimation = FALSE
    /\ caller = NoCaller

\* GameProvider before a game is started or loaded
ContextIdle ==
    /\ state = NullSession
    /\ currentChallenge = <<>>

\* ChallengeController.context === undefined
NoContext ==
    [challenge |-> [correctAnswer |-> 0, reward |-> 0], attempts |-> -1,
     inputValue |-> <<>>, hint |-> FALSE]

\* new ChallengeController(scene): nothing is presented
ControllerIdle ==
    /\ controller = "immediate"
    /\ active = FALSE
    /\ context = NoContext
    /\ delayedCalls = <<>>
    /\ invoked = <<>>

Init ==
    /\ GeneratorIdle
    /\ ProgressionIdle
    /\ IdsIdle
    /\ GameIdle
    /\ ContextIdle
    /\ ControllerIdle

\* generateTileMap up to the first statement of carvePath(startX, startY)
CallGenerateTileMap(v, w, h, d) ==
    LET startX == IF 0 % 2 = 0 THEN 0 + 1 ELSE 0
        startY == IF (h - 1) % 2 = 0 THEN (h - 1) + 1 ELSE h - 1
        c == <<startX, startY>>
    IN  /\ pc = "idle"
        /\ variant' = v
        /\ width' = w
        /\ height' = h
        /\ difficulty' = d
        /\ tiles' = [g \in Grid(w, h) |-> BlockedTile]
        /\ oob' = IF isValid(startX, startY, w, h) THEN {} ELSE {c}
        /\ IF startY \in 0..(h - 1)
           THEN /\ maze' = {c}
                /\ stack' = <<c>>
                /\ pc' = "carve"
                /\ error' = "none"
           ELSE \* maze[startY] is undefined
                /\ maze' = {}
                /\ stack' = <<>>
                /\ pc' = "raised"
                /\ error' = "TypeError"
        /\ call' = "generateTileMap"
        /\ edgeOpenings' = {}
        /\ UNCHANGED <<cur, steps, i, challengeCount, mobs, challenge, callerVars, idVars>>

GenerateTileMap ==
    \E v \in Variants, w \in Widths, h \in Heights, d \in DifficultyLevel :
        /\ w * h <= MaxCells
        /\ CallGenerateTileMap(v, w, h, d)

\* The directions whose test isValid(newX, newY) && !maze[newY][newX] holds
\* at the cell of the innermost call.  A direction whose test fails once
\* fails ever after (no cell is closed again), so the shuffled loop of a call
\* carves, at each return to it, into one of these in any order.
CandidatesAt(mz, stk, w, h) ==
    LET top == stk[Len(stk)]
    IN  {dir \in directions :
            /\ isValid(top[1] + dir[1], top[2] + dir[2], w, h)
            /\ <<top[1] + dir[1], top[2] + dir[2]>> \notin mz}

CarveCandidates == CandidatesAt(maze, stack, width, height)

\* A carve that recurses into the neighbour and leaves the wall closed
carvePathKeepsWall(mz, stk, dir) ==
    LET top == stk[Len(stk)]
        new == <<top[1] + dir[1], top[2] + dir[2]>>
    IN  [maze |-> mz \cup {new}, stack |-> Append(stk, new)]

\* carvePath: maze[wallY][wallX] = true; carvePath(newX, newY)
carvePath(mz, stk, dir) ==
    LET top == stk[Len(stk)]
        new == <<top[1] + dir[1], top[2] + dir[2]>>
        wall == <<top[1] + dir[1] \div 2, top[2] + dir[2] \div 2>>
    IN  [maze |-> mz \cup {wall, new}, stack |-> Append(stk, new)]

\* carvePath: remove the wall and recurse into the neighbour two cells away
CarveInto ==
    /\ pc = "carve"
    /\ stack # <<>>
    /\ \E dir \in CarveCandidates :
        LET r == carvePath(maze, stack, dir)
        IN  /\ maze' = r.maze
            /\ stack' = r.stack
            /\ oob' = oob \cup {c \in r.maze \ maze : ~InGrid(c)}
    /\ UNCHANGED <<pc, variant, width, height, difficulty, cur, steps, i,
                   challengeCount, tiles, mobs, error, challenge, call, restVars, idVars>>

\* carvePath: the loop over the directions is over, the call returns
CarveBacktrack ==
    /\ pc = "carve"
    /\ stack # <<>>
    /\ CarveCandidates = {}
    /\ stack' = SubSeq(stack, 1, Len(stack) - 1)
    /\ UNCHANGED <<pc, variant, width, height, difficulty, maze, cur, steps, i,
                   challengeCount, tiles, mobs, oob, error, challenge, call, restVars, idVars>>

\* generateMazePaths after carvePath: open start and end, test the path
EnsureEndpoints ==
    LET start == StartPosition(height)
        end == BossPosition(width)
        opened == maze \cup {start, end}
    IN  /\ pc = "carve"
        /\ stack = <<>>
        /\ maze' = opened
        /\ cur' = start
        /\ steps' = 0
        /\ i' = 0
        /\ pc' = IF isPathAvailable(opened, start, end, width, height)
                 THEN "extras" ELSE "fallback"
        /\ UNCHANGED <<variant, width, height, difficulty, stack,
                       challengeCount, tiles, mobs, oob, error, challenge, call, restVars, idVars>>

\* Candidates whose vertical step always goes down the grid
FallbackCandidatesDownward(c, end) ==
    (IF c[1] # end[1]
       THEN {<<c[1] + (IF c[1] < end[1] THEN 1 ELSE -1), c[2]>>} ELSE {})
    \cup
    (IF c[2] # end[2] THEN {<<c[1], c[2] + 1>>} ELSE {})

\* carveFallbackPath: the candidates of one iteration of the while loop
FallbackCandidates(c, end) ==
    (IF c[1] # end[1]
       THEN {<<c[1] + (IF c[1] < end[1] THEN 1 ELSE -1), c[2]>>} ELSE {})
    \cup
    (IF c[2] # end[2]
       THEN {<<c[1], c[2] + (IF c[2] < end[2] THEN 1 ELSE -1)>>} ELSE {})

\* carveFallbackPath as a whole: the sets of cells it can open between start
\* and end, one for each sequence of values randomInt can return
RECURSIVE carveFallbackPath(_, _)
carveFallbackPath(start, end) ==
    IF start = end
    THEN {{end}}
    ELSE UNION {{{start} \cup corridor : corridor \in carveFallbackPath(next, end)} :
                    next \in FallbackCandidates(start, end)}

FallbackStep ==
    /\ pc = "fallback"
    /\ cur # BossPosition(width)
    /\ \E next \in FallbackCandidates(cur, BossPosition(width)) :
        /\ maze' = maze \cup {next}
        /\ cur' = next
        /\ oob' = oob \cup (IF InGrid(next) THEN {} ELSE {next})
    /\ steps' = steps + 1
    /\ UNCHANGED <<pc, variant, width, height, difficulty, stack, i,
                   challengeCount, tiles, mobs, error, challenge, call, restVars, idVars>>

FallbackDone ==
    /\ pc = "fallback"
    /\ cur = BossPosition(width)
    /\ maze' = maze \cup {BossPosition(width)}
    /\ pc' = "extras"
    /\ UNCHANGED <<variant, width, height, difficulty, stack, cur, steps, i,
                   challengeCount, tiles, mobs, oob, error, challenge, call, restVars, idVars>>

openingCount == (width * height) \div 10

\* The cells of a w x h grid outside its first and last row and column
Interior(w, h) == (1..(w - 2)) \X (1..(h - 2))

\* addExtraOpenings: one iteration
ExtraOpening ==
    /\ pc = "extras"
    /\ i < openingCount
    /\ \E x \in randomInt(1, width - 2), y \in randomInt(1, height - 2) :
        /\ oob' = oob \cup (IF isValid(x, y, width, height) THEN {} ELSE {<<x, y>>})
        /\ IF y \in 0..(height - 1)
           THEN /\ maze' = maze \cup {<<x, y>>}
                /\ i' = i + 1
                /\ edgeOpenings' = edgeOpenings \cup
                      (IF isValid(x, y, width, height)
                          /\ <<x, y>> \notin Interior(width, height)
                       THEN {<<x, y>>} ELSE {})
                /\ UNCHANGED <<pc, error>>
           ELSE /\ pc' = "raised"
                /\ error' = "TypeError"
                /\ UNCHANGED <<maze, i, edgeOpenings>>
    /\ UNCHANGED <<variant, width, height, difficulty, stack, cur, steps,
                   challengeCount, tiles, mobs, challenge, call, callerVars, idVars>>

\* generateTileMap: the factor 0.3 of Math.floor(accessibleTiles * 0.3), as
\* a fraction; it is the same for every tier
densityFactor(d) == [num |-> 3, den |-> 10]

\* generateTileMap after generateMazePaths returned: apply the maze to the
\* tiles, place the boss, count the accessible cells
AssembleTiles(space) ==
    LET boss == BossPosition(width)
        applied == [g \in Grid(width, height) |->
                      IF g \in maze
                      THEN [type |-> "empty", isAccessible |-> TRUE,
                            challenge |-> NoChallenge]
                      ELSE tiles[g]]
    IN  /\ pc = "extras"
        /\ i = openingCount
        /\ IF OperandsRaise(bossDifficultyOf(difficulty))
           THEN /\ pc' = "raised"
                /\ error' = "TypeError"
                /\ UNCHANGED <<tiles, challengeCount, i, idVars>>
           ELSE /\ tiles' = [applied EXCEPT ![boss] =
                               [type |-> "boss", isAccessible |-> TRUE,
                                challenge |-> BossSummary(difficulty)]]
                /\ \E t \in DateNow(space), suffix \in space.suffixes :
                      /\ now' = t
                      /\ ids' = Append(ids, <<"boss", t, suffix>>)
                /\ challengeCount' =
                      (Cardinality(maze) * densityFactor(difficulty).num)
                          \div densityFactor(difficulty).den
                /\ i' = 0
                /\ pc' = "place"
                /\ UNCHANGED error
        /\ UNCHANGED <<variant, width, height, difficulty, maze, stack, cur,
                       steps, mobs, oob, challenge, call, restVars>>

\* accessiblePositions without the two exclusions
accessiblePositionsUnfiltered == {g \in Grid(width, height) : g \in maze}

\* Both placements: the accessible positions other than start and boss
accessiblePositions ==
    {g \in Grid(width, height) :
        /\ g \in maze
        /\ g # StartPosition(height)
        /\ g # BossPosition(width)}


\* placeChallengesOnPaths (game-logic.ts): iteration i of the loop over the
\* shuffled positions; shuffledPositions[i] is any position not used before.
\* The model follows the loop for at most `limit` iterations.
PlaceChallenge(limit, space) ==
    /\ pc = "place"
    /\ variant = "tiles"
    /\ i < Min(challengeCount, Cardinality(accessiblePositions))
    /\ i < limit
    /\ \E pos \in {g \in accessiblePositions : tiles[g].type # "challenge"} :
        IF OperandsRaise(difficulty)
        THEN /\ pc' = "raised"
             /\ error' = "TypeError"
             /\ UNCHANGED <<tiles, i, idVars>>
        ELSE /\ tiles' = [tiles EXCEPT ![pos] =
                            [type |-> "challenge", isAccessible |-> @.isAccessible,
                             challenge |-> RegularSummary(difficulty)]]
             /\ \E t \in DateNow(space), suffix \in space.suffixes :
                   /\ now' = t
                   /\ ids' = Append(ids, <<"challenge", t, suffix>>)
             /\ i' = i + 1
             /\ UNCHANGED <<pc, error>>
    /\ UNCHANGED <<variant, width, height, difficulty, maze, stack, cur, steps,
                   challengeCount, mobs, oob, challenge, call, restVars>>

MobCount == 10

MobPositions == {mobs[k].position : k \in 1..Len(mobs)}

\* generateMobs (part_008): iteration i of the loop over the shuffled
\* positions.  The id and the sprite frame of a mob are left out; the id of
\* its challenge is kept in `ids`.
GenerateMob(limit, space) ==
    /\ pc = "place"
    /\ variant = "mobs"
    /\ i < Min(MobCount, Cardinality(accessiblePositions))
    /\ i < limit
    /\ \E pos \in accessiblePositions \ MobPositions :
        IF OperandsRaise(difficulty)
        THEN /\ pc' = "raised"
             /\ error' = "TypeError"
             /\ UNCHANGED <<mobs, i, idVars>>
        ELSE /\ mobs' = Append(mobs, [position |-> pos,
                                      challenge |-> RegularSummary(difficulty),
                                      isCompleted |-> FALSE])
             /\ \E t \in DateNow(space), suffix \in space.suffixes :
                   /\ now' = t
                   /\ ids' = Append(ids, <<"challenge", t, suffix>>)
             /\ i' = i + 1
             /\ UNCHANGED <<pc, error>>
    /\ UNCHANGED <<variant, width, height, difficulty, maze, stack, cur, steps,
                   challengeCount, tiles, oob, challenge, call, restVars>>

PlacementTarget ==
    IF variant = "tiles"
    THEN Min(challengeCount, Cardinality(accessiblePositions))
    ELSE Min(MobCount, Cardinality(accessiblePositions))

\* generateTileMap returns { id, width, height, tiles, ..., isCompleted: false }
ReturnMap ==
    /\ pc = "place"
    /\ i = PlacementTarget
    /\ pc' = "done"
    /\ UNCHANGED <<variant, width, height, difficulty, maze, stack, cur, steps,
                   i, challengeCount, tiles, mobs, oob, error, challenge, call, restVars, idVars>>

Next ==
    \/ GenerateTileMap
    \/ CarveInto
    \/ CarveBacktrack
    \/ EnsureEndpoints
    \/ FallbackStep
    \/ FallbackDone
    \/ ExtraOpening
    \/ AssembleTiles(OneId)
    \/ PlaceChallenge(MaxPlaced, OneId)
    \/ GenerateMob(MaxPlaced, OneId)
    \/ ReturnMap

Spec == Init /\ [][Next]_vars

-----------------------------------------------------------------------------
(* generateRegularChallenge and generateBossChallenge called on their own.  *)
(* A number is kept as a fraction in lowest terms, so that the JavaScript   *)
(* quotient a / b of calculateAnswer is an integer only when it is one.     *)

RECURSIVE GCD(_, _)
GCD(a, b) == IF b = 0 THEN a ELSE GCD(b, a % b)

Abs(n) == IF n < 0 THEN -n ELSE n

Num(n) == [num |-> n, den |-> 1]

Quotient(a, b) ==
    IF b = 0 THEN [num |-> a, den |-> 0]
    ELSE LET g == GCD(Abs(a), Abs(b))
         IN  [num |-> a \div g, den |-> b \div g]

IsInteger(v) == v.den = 1

\* generateOperands whose division draws the dividend like any other
\* operand instead of building it as divisor * quotient
generateOperandsFreeDividend(operation, d) ==
    LET range == ranges[d]
        multMax == Min(range.max, 12)
    IN  CASE operation \in {"addition", "subtraction"} ->
                {<<a, b>> : a \in randomInt(range.min, range.max),
                            b \in randomInt(range.min, range.max)}
          [] operation = "multiplication" ->
                {<<a, b>> : a \in randomInt(range.min, multMax),
                            b \in randomInt(range.min, multMax)}
          [] operation = "division" ->
                {<<quotient, divisor>> :
                    divisor \in randomInt(range.min, Min(range.max, 12)),
                    quotient \in randomInt(range.min, range.max)}

\* utils.generateOperands for a tier of the table `ranges`: every pair it
\* can return
generateOperands(operation, d) ==
    LET range == ranges[d]
        multMax == Min(range.max, 12)
    IN  CASE operation \in {"addition", "subtraction"} ->
                {<<a, b>> : a \in randomInt(range.min, range.max),
                            b \in randomInt(range.min, range.max)}
          [] operation = "multiplication" ->
                {<<a, b>> : a \in randomInt(range.min, multMax),
                            b \in randomInt(range.min, multMax)}
          [] operation = "division" ->
                {<<divisor * quotient, divisor>> :
                    divisor \in randomInt(range.min, Min(range.max, 12)),
                    quotient \in randomInt(range.min, range.max)}

\* utils.calculateAnswer
calculateAnswer(operation, operands) ==
    LET a == operands[1]
        b == operands[2]
    IN  CASE operation = "addition" -> Num(a + b)
          [] operation = "subtraction" -> Num(a - b)
          [] operation = "multiplication" -> Num(a * b)
          [] operation = "division" -> Quotient(a, b)

\* generateRegularChallenge(d) for a tier whose operands can be generated
generateRegularChallenge(d) ==
    LET operations == allowedOperationsByDifficulty[d]
        Built(operation) ==
            {[operation |-> operation,
              operands |-> operands,
              correctAnswer |-> calculateAnswer(operation, operands),
              difficulty |-> d,
              reward |-> rewardMultipliers[d]] :
                operands \in generateOperands(operation, d)}
    IN  UNION {Built(operations[k + 1]) : k \in randomInt(0, Len(operations) - 1)}

\* generateBossChallenge(d): { ...challenge, reward: challenge.reward * 3 }
generateBossChallenge(d) ==
    {[c EXCEPT !.reward = c.reward * 3] :
        c \in generateRegularChallenge(getNextDifficulty(d))}

CallGenerateRegularChallenge(d) ==
    /\ pc = "idle"
    /\ call' = "generateRegularChallenge"
    /\ difficulty' = d
    /\ IF OperationsRaise(d) \/ OperandsRaise(d)
       THEN /\ pc' = "raised"
            /\ error' = "TypeError"
            /\ UNCHANGED challenge
       ELSE /\ \E c \in generateRegularChallenge(d) : challenge' = c
            /\ pc' = "regularChallenge"
            /\ UNCHANGED error
    /\ UNCHANGED <<variant, width, height, maze, stack, cur, steps, i,
                   challengeCount, tiles, mobs, oob, restVars, idVars>>

CallGenerateBossChallenge(d) ==
    /\ pc = "idle"
    /\ call' = "generateBossChallenge"
    /\ difficulty' = d
    /\ IF OperandsRaise(getNextDifficulty(d))
       THEN /\ pc' = "raised"
            /\ error' = "TypeError"
            /\ UNCHANGED challenge
       ELSE /\ \E c \in generateBossChallenge(d) : challenge' = c
            /\ pc' = "bossChallenge"
            /\ UNCHANGED error
    /\ UNCHANGED <<variant, width, height, maze, stack, cur, steps, i,
                   challengeCount, tiles, mobs, oob, restVars, idVars>>

RegularChallenge ==
    \E d \in DifficultyLevel \cup UnknownDifficulty : CallGenerateRegularChallenge(d)

BossChallenge ==
    \E d \in DifficultyLevel \cup UnknownDifficulty : CallGenerateBossChallenge(d)

NextChallenge ==
    \/ RegularChallenge
    \/ BossChallenge

SpecChallenge == Init /\ [][NextChallenge]_vars

-----------------------------------------------------------------------------
(* generateTileMap on an 8 x 8 map, followed from a state in the middle of  *)
(* carvePath: the state that the carve reaches from its start cell <<1, 7>> *)
(* when the shuffles make it carve in the directions of WideCarveOrder.     *)

MaxPlacedWide == 1

WideInput == [width |-> 8, height |-> 8, difficulty |-> "easy"]

WideCarveOrder ==
    << <<2, 0>>, <<0, -2>>, <<-2, 0>>, <<0, -2>>, <<2, 0>>, <<0, -2>>, <<2, 0>>,
       <<0, 2>>, <<2, 0>>, <<0, 2>>, <<-2, 0>>, <<0, 2>>, <<2, 0>> >>

\* The carve state after carving into the directions of `order` in turn,
\* each one a candidate of the call that is innermost at its turn
RECURSIVE CarveReplay(_, _, _, _, _)
CarveReplay(mz, stk, order, w, h) ==
    IF order = <<>>
    THEN [maze |-> mz, stack |-> stk, ok |-> TRUE]
    ELSE IF Head(order) \in CandidatesAt(mz, stk, w, h)
         THEN LET r == carvePath(mz, stk, Head(order))
              IN  CarveReplay(r.maze, r.stack, Tail(order), w, h)
         ELSE [maze |-> mz, stack |-> stk, ok |-> FALSE]

WideCarve ==
    CarveReplay({<<1, WideInput.height - 1>>}, << <<1, WideInput.height - 1>> >>,
                WideCarveOrder, WideInput.width, WideInput.height)

InitWide ==
    /\ WideCarve.ok
    /\ pc = "carve"
    /\ variant \in Variants
    /\ width = WideInput.width
    /\ height = WideInput.height
    /\ difficulty = WideInput.difficulty
    /\ maze = WideCarve.maze
    /\ stack = WideCarve.stack
    /\ cur = <<0, 0>>
    /\ steps = 0
    /\ i = 0
    /\ challengeCount = 0
    /\ tiles = [g \in Grid(WideInput.width, WideInput.height) |-> BlockedTile]
    /\ mobs = <<>>
    /\ oob = {}
    /\ error = "none"
    /\ challenge = NoChallenge
    /\ call = "generateTileMap"
    /\ edgeOpenings = {}
    /\ ProgressionIdle
    /\ IdsIdle
    /\ GameIdle
    /\ ContextIdle
    /\ ControllerIdle

NextWide ==
    \/ CarveInto
    \/ CarveBacktrack
    \/ EnsureEndpoints
    \/ ExtraOpening
    \/ AssembleTiles(OneId)
    \/ PlaceChallenge(MaxPlacedWide, OneId)
    \/ GenerateMob(MaxPlacedWide, OneId)

SpecWide == InitWide /\ [][NextWide]_vars

-----------------------------------------------------------------------------
(* generateTileMap with the ids of its challenges followed over IdSpace, on *)
(* maps of at most MaxCellsIds cells                                        *)

MaxCellsIds == 12

GenerateTileMapIds ==
    \E v \in Variants, w \in Widths, h \in Heights, d \in {"beginner", "expert"} :
        /\ w * h <= MaxCellsIds
        /\ CallGenerateTileMap(v, w, h, d)

NextIds ==
    \/ GenerateTileMapIds
    \/ CarveInto
    \/ CarveBacktrack
    \/ EnsureEndpoints
    \/ FallbackStep
    \/ FallbackDone
    \/ ExtraOpening
    \/ AssembleTiles(IdSpace)
    \/ PlaceChallenge(MaxPlaced, IdSpace)
    \/ GenerateMob(MaxPlaced, IdSpace)
    \/ ReturnMap

SpecIds == Init /\ [][NextIds]_vars

-----------------------------------------------------------------------------
(* generateTileMap on maps that are two cells wide or two cells high, of    *)
(* at most MaxNarrow cells along the other side                             *)

MaxNarrow == 6

GenerateTileMapNarrow ==
    \E v \in Variants, w \in 2..MaxNarrow, h \in 2..MaxNarrow,
       d \in {"infant", "beginner", "expert"} :
        /\ w = 2 \/ h = 2
        /\ CallGenerateTileMap(v, w, h, d)

NextNarrow ==
    \/ GenerateTileMapNarrow
    \/ CarveInto
    \/ CarveBacktrack
    \/ EnsureEndpoints
    \/ FallbackStep
    \/ FallbackDone
    \/ ExtraOpening
    \/ AssembleTiles(OneId)
    \/ PlaceChallenge(MaxPlaced, OneId)
    \/ GenerateMob(MaxPlaced, OneId)
    \/ ReturnMap

SpecNarrow == Init /\ [][NextNarrow]_vars

-----------------------------------------------------------------------------
(* getNextDifficulty applied repeatedly: game-logic.ts, and the copy that   *)
(* GameContext.tsx keeps inline                                             *)

MaxApplications == 7

levels == <<"infant", "toddler", "beginner", "easy", "medium", "hard", "expert">>

\* GameContext.tsx: levels[Math.min(levels.indexOf(current) + 1, levels.length - 1)]
getNextDifficultyInline(d) ==
    LET index == IF \E k \in 1..Len(levels) : levels[k] = d
                 THEN CHOOSE k \in 1..Len(levels) : levels[k] = d
                 ELSE 0
    IN  levels[Min(index + 1, Len(levels))]

InitProgression ==
    /\ GeneratorIdle
    /\ implementation \in {"shared", "context"}
    /\ first \in DifficultyLevel
    /\ current = first
    /\ applications = 0
    /\ IdsIdle
    /\ GameIdle
    /\ ContextIdle
    /\ ControllerIdle

\* One more application to the tier the last one returned
ApplyNextDifficulty ==
    /\ applications < MaxApplications
    /\ current' = IF implementation = "shared"
                  THEN getNextDifficulty(current)
                  ELSE getNextDifficultyInline(current)
    /\ applications' = applications + 1
    /\ UNCHANGED <<pc, variant, width, height, difficulty, maze, stack, cur,
                   steps, i, challengeCount, tiles, mobs, oob, error, challenge,
                   call, implementation, first, idVars, gameVars, contextVars,
                   edgeOpenings, controllerVars>>

NextProgression == ApplyNextDifficulty

SpecProgression == InitProgression /\ [][NextProgression]_vars

-----------------------------------------------------------------------------
(* The Phaser game: MainScene and its managers play on the maps that        *)
(* generateTileMap (part_008) returns.  JavaScript runs one handler at a    *)
(* time, so the handlers wait while a call of generateTileMap is running.   *)
(* The sprites, the HUD and the saving of the session are left out: no     *)
(* handler reads them to decide a position, a flag or the wallet.           *)

HalfMapSize == 1

\* constants.ts sets 16; the model plays on the even size 2 * HalfMapSize
FIXED_MAP_SIZE == 2 * HalfMapSize

MaxCompletedMaps == 1   \* maps a session completes at most

Direction == {"left", "right", "up", "down"}

generatorVars == <<pc, variant, width, height, difficulty, maze, stack, cur,
                   steps, i, challengeCount, tiles, mobs, oob, error,
                   challenge, call, edgeOpenings>>

Max(a, b) == IF a > b THEN a ELSE b

\* The TileMap that generateTileMap (part_008) returns
ReturnedMap(id) ==
    [id |-> id, width |-> width, height |-> height, difficulty |-> difficulty,
     tiles |-> [g \in DOMAIN tiles |->
                  [type |-> tiles[g].type,
                   isAccessible |-> tiles[g].isAccessible,
                   challenge |-> tiles[g].challenge,
                   isBossDefeated |-> FALSE]],
     mobs |-> mobs,
     startPosition |-> StartPosition(height),
     bossPosition |-> BossPosition(width)]

\* createNewSession: the session on a map just generated
NewSession(map) ==
    [player |-> [currentPosition |-> map.startPosition, completedMaps |-> <<>>,
                 currency |-> 0, coinMultiplierCharges |-> 0,
                 totalChallengesCompleted |-> 0, currentStreak |-> 0,
                 bestStreak |-> 0],
     currentMap |-> map]

\* The call of generateTileMap is over and its locals are gone
CallOver ==
    /\ pc' = "idle"
    /\ variant' = "tiles"
    /\ width' = 0
    /\ height' = 0
    /\ difficulty' = "infant"
    /\ maze' = {}
    /\ stack' = <<>>
    /\ cur' = <<0, 0>>
    /\ steps' = 0
    /\ i' = 0
    /\ challengeCount' = 0
    /\ tiles' = <<>>
    /\ mobs' = <<>>
    /\ oob' = {}
    /\ error' = "none"
    /\ challenge' = NoChallenge
    /\ call' = "none"
    /\ edgeOpenings' = {}
    /\ ids' = <<>>
    /\ UNCHANGED now

\* A move that does not look at the target tile
calculateNextPositionUnchecked(direction, map, position) ==
    LET x == position[1]
        y == position[2]
        target == CASE direction = "left"  -> <<Max(0, x - 1), y>>
                    [] direction = "right" -> <<Min(map.width - 1, x + 1), y>>
                    [] direction = "up"    -> <<x, Max(0, y - 1)>>
                    [] direction = "down"  -> <<x, Min(map.height - 1, y + 1)>>
    IN  IF target = position THEN <<>> ELSE target

\* PlayerMovementHandler.calculateNextPosition: <<>> for null
calculateNextPosition(direction, map, position) ==
    LET x == position[1]
        y == position[2]
        target == CASE direction = "left"  -> <<Max(0, x - 1), y>>
                    [] direction = "right" -> <<Min(map.width - 1, x + 1), y>>
                    [] direction = "up"    -> <<x, Max(0, y - 1)>>
                    [] direction = "down"  -> <<x, Min(map.height - 1, y + 1)>>
    IN  IF target = position THEN <<>>
        ELSE IF ~map.tiles[target].isAccessible THEN <<>>
        ELSE target

\* MobController.getMobAtPosition: the index of the first mob that is not
\* completed and stands on `position`, 0 for null
getMobAtPosition(map, position) ==
    LET hits == {k \in 1..Len(map.mobs) :
                    /\ ~map.mobs[k].isCompleted
                    /\ map.mobs[k].position = position}
    IN  IF hits = {} THEN 0 ELSE CHOOSE k \in hits : \A j \in hits : k <= j

\* MobController.pauseMovement and resumeMovement act on the timers there are
pauseMovement(timers) == IF timers = "running" THEN "paused" ELSE timers

resumeMovement(timers) == IF timers = "paused" THEN "running" ELSE timers

\* ChallengeManager.checkForChallenge: the key, the challenge on screen and
\* the timers after the call
checkForChallenge(sess, currentPosition, key, pres, timers) ==
    LET map == sess.currentMap
        same == [lastChallengeKey |-> key, presented |-> pres, mobTimers |-> timers]
        onBoss == /\ currentPosition \in DOMAIN map.tiles
                  /\ map.tiles[currentPosition].type = "boss"
                  /\ map.tiles[currentPosition].challenge # NoChallenge
                  /\ ~map.tiles[currentPosition].isBossDefeated
        bossKey == <<"boss", currentPosition[1], currentPosition[2], 0>>
        mob == getMobAtPosition(map, currentPosition)
        mobKey == <<"mob", currentPosition[1], currentPosition[2], mob>>
    IN  IF sess = NullSession THEN [same EXCEPT !.lastChallengeKey = NoKey]
        ELSE IF onBoss
        THEN IF key # bossKey
             THEN [lastChallengeKey |-> bossKey,
                   presented |-> [kind |-> "boss", mob |-> 0],
                   mobTimers |-> pauseMovement(timers)]
             ELSE same
        ELSE IF mob # 0
        THEN IF key # mobKey
             THEN [lastChallengeKey |-> mobKey,
                   presented |-> [kind |-> "mob", mob |-> mob],
                   mobTimers |-> pauseMovement(timers)]
             ELSE same
        ELSE [same EXCEPT !.lastChallengeKey = NoKey]

\* MapProgressionManager.checkMapCompletion: the level overlay and the timers
\* after the call
checkMapCompletion(sess, overlay, timers) ==
    LET map == sess.currentMap
    IN  IF sess = NullSession \/ ~map.tiles[map.bossPosition].isBossDefeated
        THEN [levelOverlay |-> overlay, mobTimers |-> timers]
        ELSE [levelOverlay |-> TRUE, mobTimers |-> "stopped"]

\* MainScene.rebuildScene on a board that renders: the mob timers start and
\* the player's tile is checked
rebuildScene(sess, key, pres) ==
    checkForChallenge(sess, sess.player.currentPosition, key, pres, "running")

\* MainScene.create: loadExistingSession finds the session that an earlier
\* run saved on its first map of tier d; generateTileMap as that run called it
LoadExistingSession(w, h, d, coins) ==
    /\ GameIdle
    /\ ContextIdle
    /\ pc = "idle"
    /\ caller' = [function |-> "loadExistingSession", difficulty |-> d,
                  width |-> w, height |-> h, currency |-> coins]
    /\ UNCHANGED <<phase, session, previousPosition, lastChallengeKey, presented,
                   levelOverlay, mobTimers, resetAnimation>>
    /\ UNCHANGED <<generatorVars, progressionVars, idVars, contextVars,
                 controllerVars>>

\* loadExistingSession of a session saved on a map of FIXED_MAP_SIZE with an
\* empty wallet
SavedSession(d) == LoadExistingSession(FIXED_MAP_SIZE, FIXED_MAP_SIZE, d, 0)

\* MainScene.startNewGame up to the call of generateTileMap in createNewSession
StartNewGame ==
    /\ caller = NoCaller
    /\ ContextIdle
    /\ pc = "idle"
    /\ phase = "menu"
    /\ caller' = [function |-> "createNewSession", difficulty |-> "infant",
                  width |-> FIXED_MAP_SIZE, height |-> FIXED_MAP_SIZE,
                  currency |-> 0]
    /\ UNCHANGED <<phase, session, previousPosition, lastChallengeKey, presented,
                   levelOverlay, mobTimers, resetAnimation>>
    /\ UNCHANGED <<generatorVars, progressionVars, idVars, contextVars,
                 controllerVars>>

\* generateTileMap(id, FIXED_MAP_SIZE, FIXED_MAP_SIZE, difficulty) of the lib
GenerateTileMapGame ==
    /\ caller # NoCaller
    /\ CallGenerateTileMap("mobs", caller.width, caller.height, caller.difficulty)

\* An advanceToNextMap that leaves currentStreak as it is
ReturnToCallerKeepsStreak ==
    LET created == [NewSession(ReturnedMap(1)) EXCEPT
                        !.player.currency = caller.currency]
        newMap == ReturnedMap(Len(session.player.completedMaps) + 2)
        advanced == [player |-> [session.player EXCEPT
                                    !.currentPosition = newMap.startPosition,
                                    !.completedMaps = Append(@, session.currentMap.id)],
                     currentMap |-> newMap]
        sess == IF caller.function = "advanceToNextMap" THEN advanced ELSE created
        rebuilt == rebuildScene(sess, NoKey, presented)
    IN  /\ pc = "done"
        /\ caller # NoCaller
        /\ session' = sess
        /\ IF caller.function = "loadExistingSession"
           THEN UNCHANGED <<phase, previousPosition, lastChallengeKey, presented,
                            mobTimers>>
           ELSE /\ phase' = "play"
                /\ previousPosition' = <<>>
                /\ lastChallengeKey' = rebuilt.lastChallengeKey
                /\ presented' = rebuilt.presented
                /\ mobTimers' = rebuilt.mobTimers
        /\ caller' = NoCaller
        /\ CallOver
        /\ UNCHANGED <<levelOverlay, resetAnimation, progressionVars, contextVars,
                       controllerVars>>

\* generateTileMap returned: the rest of createNewSession and startNewGame,
\* of advanceToNextMap and onMapAdvanced, or the session that was saved
ReturnToCaller ==
    LET created == [NewSession(ReturnedMap(1)) EXCEPT
                        !.player.currency = caller.currency]
        newMap == ReturnedMap(Len(session.player.completedMaps) + 2)
        advanced == [player |-> [session.player EXCEPT
                                    !.currentPosition = newMap.startPosition,
                                    !.completedMaps = Append(@, session.currentMap.id),
                                    !.currentStreak = 0],
                     currentMap |-> newMap]
        sess == IF caller.function = "advanceToNextMap" THEN advanced ELSE created
        rebuilt == rebuildScene(sess, NoKey, presented)
    IN  /\ pc = "done"
        /\ caller # NoCaller
        /\ session' = sess
        /\ IF caller.function = "loadExistingSession"
           THEN UNCHANGED <<phase, previousPosition, lastChallengeKey, presented,
                            mobTimers>>
           ELSE /\ phase' = "play"
                /\ previousPosition' = <<>>
                /\ lastChallengeKey' = rebuilt.lastChallengeKey
                /\ presented' = rebuilt.presented
                /\ mobTimers' = rebuilt.mobTimers
        /\ caller' = NoCaller
        /\ CallOver
        /\ UNCHANGED <<levelOverlay, resetAnimation, progressionVars, contextVars,
                       controllerVars>>

\* generateTileMap raised: the exception leaves the handler that called it
RaiseToCaller ==
    /\ pc = "raised"
    /\ caller # NoCaller
    /\ caller' = NoCaller
    /\ CallOver
    /\ UNCHANGED <<phase, session, previousPosition, lastChallengeKey, presented,
                   levelOverlay, mobTimers, resetAnimation, progressionVars,
                   contextVars, controllerVars>>

\* MainScene.continueSession
ContinueSession ==
    LET rebuilt == rebuildScene(session, lastChallengeKey, presented)
    IN  /\ caller = NoCaller
        /\ phase = "menu"
        /\ session # NullSession
        /\ phase' = "play"
        /\ lastChallengeKey' = rebuilt.lastChallengeKey
        /\ presented' = rebuilt.presented
        /\ mobTimers' = rebuilt.mobTimers
        /\ UNCHANGED <<session, previousPosition, levelOverlay, resetAnimation, caller>>
        /\ UNCHANGED <<generatorVars, progressionVars, idVars, contextVars,
                 controllerVars>>

\* MainScene.showMenu
ShowMenu ==
    /\ phase' = "menu"
    /\ presented' = NotPresented
    /\ levelOverlay' = FALSE
    /\ mobTimers' = "stopped"
    /\ UNCHANGED <<session, previousPosition, lastChallengeKey, resetAnimation, caller>>
    /\ UNCHANGED <<generatorVars, progressionVars, idVars, contextVars,
                 controllerVars>>

\* MainScene.handleMenuShortcut
MenuShortcut ==
    /\ caller = NoCaller
    /\ phase = "play"
    /\ presented = NotPresented
    /\ ~levelOverlay
    /\ ShowMenu

\* MainScene.update with a direction polled: setPreviousPosition, movePlayer
\* and, when the player moved, checkForChallenge
MovePlayer(direction) ==
    LET next == calculateNextPosition(direction, session.currentMap,
                                      session.player.currentPosition)
        moved == [session EXCEPT !.player.currentPosition = next]
        checked == checkForChallenge(moved, next, lastChallengeKey, presented,
                                     mobTimers)
    IN  /\ caller = NoCaller
        /\ phase = "play"
        /\ session # NullSession
        /\ presented = NotPresented
        /\ ~levelOverlay
        /\ previousPosition' = session.player.currentPosition
        /\ IF next = <<>>
           THEN UNCHANGED <<session, lastChallengeKey, presented, mobTimers>>
           ELSE /\ session' = moved
                /\ lastChallengeKey' = checked.lastChallengeKey
                /\ presented' = checked.presented
                /\ mobTimers' = checked.mobTimers
        /\ UNCHANGED <<phase, levelOverlay, resetAnimation, caller>>
        /\ UNCHANGED <<generatorVars, progressionVars, idVars, contextVars,
                 controllerVars>>

\* getRandomAdjacentPosition without the search for a mob on the tile
getRandomAdjacentPositionOccupied(map, position) ==
    {g \in Grid(map.width, map.height) :
        /\ Adjacent(position, g)
        /\ map.tiles[g].isAccessible
        /\ map.tiles[g].type # "boss"}

\* MobController.getRandomAdjacentPosition: the positions the shuffled loop
\* can return
getRandomAdjacentPosition(map, position) ==
    {g \in Grid(map.width, map.height) :
        /\ Adjacent(position, g)
        /\ map.tiles[g].isAccessible
        /\ map.tiles[g].type # "boss"
        /\ \A k \in 1..Len(map.mobs) :
              map.mobs[k].isCompleted \/ map.mobs[k].position # g}

\* MobController.moveSingleMob on the timer of mob k, and the onMobMoved
\* callback of rebuildScene
MoveSingleMob(k) ==
    /\ caller = NoCaller
    /\ mobTimers = "running"
    /\ k \in 1..Len(session.currentMap.mobs)
    /\ ~session.currentMap.mobs[k].isCompleted
    /\ \E newPosition \in getRandomAdjacentPosition(session.currentMap,
                              session.currentMap.mobs[k].position) :
          LET moved == [session EXCEPT !.currentMap.mobs[k].position = newPosition]
              checked == checkForChallenge(moved, moved.player.currentPosition,
                                           lastChallengeKey, presented, mobTimers)
          IN  /\ session' = moved
              /\ lastChallengeKey' = checked.lastChallengeKey
              /\ presented' = checked.presented
              /\ mobTimers' = checked.mobTimers
    /\ UNCHANGED <<phase, previousPosition, levelOverlay, resetAnimation, caller>>
    /\ UNCHANGED <<generatorVars, progressionVars, idVars, contextVars,
                 controllerVars>>

\* GameStateManager.deductCurrency without the Math.min and Math.max
deductCurrencyUnclamped(player, amount) ==
    [player EXCEPT !.currency = @ - amount]

\* GameStateManager.deductCurrency
deductCurrency(player, amount) ==
    LET coinsToDeduct == Min(amount, player.currency)
    IN  [player EXCEPT !.currency = Max(0, @ - coinsToDeduct)]

\* GameStateManager.resetStreak
resetStreak(player) == [player EXCEPT !.currentStreak = 0]

\* GameStateManager.updateStreakAndStats
updateStreakAndStats(player) ==
    [player EXCEPT !.totalChallengesCompleted = @ + 1,
                   !.currentStreak = @ + 1,
                   !.bestStreak = Max(@, player.currentStreak + 1)]

\* GameStateManager.applyReward that spends a charge without doubling
applyRewardFaceValue(player, baseReward) ==
    IF player.coinMultiplierCharges > 0
    THEN [player EXCEPT !.coinMultiplierCharges = @ - 1,
                        !.currency = @ + baseReward]
    ELSE [player EXCEPT !.currency = @ + baseReward]

\* GameStateManager.applyReward and addCurrency
applyReward(player, baseReward) ==
    IF player.coinMultiplierCharges > 0
    THEN [player EXCEPT !.coinMultiplierCharges = @ - 1,
                        !.currency = @ + baseReward * 2]
    ELSE [player EXCEPT !.currency = @ + baseReward]

\* The challenge of the presentation on screen: tile.bossChallenge of the
\* boss tile or mob.challenge
presentedChallenge(sess, pres) ==
    IF pres.kind = "boss"
    THEN sess.currentMap.tiles[sess.currentMap.bossPosition].challenge
    ELSE sess.currentMap.mobs[pres.mob].challenge

\* ChallengeManager.completeBossChallenge and onBossComplete
completeBossChallenge ==
    LET boss == session.currentMap.bossPosition
        defeated == [session EXCEPT
                        !.currentMap.tiles[boss].isBossDefeated = TRUE,
                        !.player = updateStreakAndStats(applyReward(@,
                                       session.currentMap.tiles[boss].challenge.reward))]
        completion == checkMapCompletion(defeated, levelOverlay,
                                         resumeMovement(mobTimers))
    IN  IF session.currentMap.tiles[boss].isBossDefeated
        THEN UNCHANGED <<session, previousPosition, lastChallengeKey,
                         levelOverlay, mobTimers>>
        ELSE /\ session' = defeated
             /\ previousPosition' = <<>>
             /\ lastChallengeKey' = NoKey
             /\ levelOverlay' = completion.levelOverlay
             /\ mobTimers' = completion.mobTimers

\* completeMobChallenge without the return on mob.isCompleted
completeMobChallengeUnguarded(k) ==
    LET completed == [session EXCEPT
                         !.currentMap.mobs[k].isCompleted = TRUE,
                         !.player = updateStreakAndStats(applyReward(@,
                                        session.currentMap.mobs[k].challenge.reward))]
        completion == checkMapCompletion(completed, levelOverlay,
                                         resumeMovement(mobTimers))
    IN  /\ session' = completed
        /\ previousPosition' = <<>>
        /\ lastChallengeKey' = NoKey
        /\ levelOverlay' = completion.levelOverlay
        /\ mobTimers' = completion.mobTimers

\* ChallengeManager.completeMobChallenge and onChallengeComplete
completeMobChallenge(k) ==
    LET completed == [session EXCEPT
                         !.currentMap.mobs[k].isCompleted = TRUE,
                         !.player = updateStreakAndStats(applyReward(@,
                                        session.currentMap.mobs[k].challenge.reward))]
        completion == checkMapCompletion(completed, levelOverlay,
                                         resumeMovement(mobTimers))
    IN  IF session.currentMap.mobs[k].isCompleted
        THEN UNCHANGED <<session, previousPosition, lastChallengeKey,
                         levelOverlay, mobTimers>>
        ELSE /\ session' = completed
             /\ previousPosition' = <<>>
             /\ lastChallengeKey' = NoKey
             /\ levelOverlay' = completion.levelOverlay
             /\ mobTimers' = completion.mobTimers

\* ChallengeController: the answer is correct; onSuccess, then hide
ChallengeSuccess ==
    /\ caller = NoCaller
    /\ presented # NotPresented
    /\ IF presented.kind = "boss"
       THEN completeBossChallenge
       ELSE completeMobChallenge(presented.mob)
    /\ presented' = NotPresented
    /\ UNCHANGED <<phase, resetAnimation, caller>>
    /\ UNCHANGED <<generatorVars, progressionVars, idVars, contextVars,
                 controllerVars>>

\* A failure that puts the mobs of the map back along with the player
ChallengeFailureResetsMobs ==
    /\ caller = NoCaller
    /\ presented # NotPresented
    /\ presented' = NotPresented
    /\ session' = [session EXCEPT
                      !.player.currentPosition = session.currentMap.startPosition,
                      !.currentMap.mobs = [k \in DOMAIN @ |->
                                             [@[k] EXCEPT !.isCompleted = FALSE]]]
    /\ resetAnimation' = TRUE
    /\ UNCHANGED <<phase, previousPosition, lastChallengeKey, levelOverlay,
                   mobTimers, caller>>
    /\ UNCHANGED <<generatorVars, progressionVars, idVars, contextVars,
                 controllerVars>>

\* ChallengeController: hide, then onFailure; handleChallengeFailure up to
\* the start of animatePlayerResetToStart
ChallengeFailure ==
    /\ caller = NoCaller
    /\ presented # NotPresented
    /\ presented' = NotPresented
    /\ session' = [session EXCEPT !.player =
                      resetStreak([deductCurrency(@,
                                      presentedChallenge(session, presented).reward)
                                   EXCEPT !.currentPosition =
                                              session.currentMap.startPosition])]
    /\ resetAnimation' = TRUE
    /\ UNCHANGED <<phase, previousPosition, lastChallengeKey, levelOverlay,
                   mobTimers, caller>>
    /\ UNCHANGED <<generatorVars, progressionVars, idVars, contextVars,
                 controllerVars>>

\* The callback that handleChallengeFailure gave animatePlayerResetToStart
ResetAnimationComplete ==
    LET completion == checkMapCompletion(session, levelOverlay,
                                         resumeMovement(mobTimers))
    IN  /\ caller = NoCaller
        /\ resetAnimation
        /\ resetAnimation' = FALSE
        /\ previousPosition' = <<>>
        /\ lastChallengeKey' = NoKey
        /\ levelOverlay' = completion.levelOverlay
        /\ mobTimers' = completion.mobTimers
        /\ UNCHANGED <<phase, session, presented, caller>>
        /\ UNCHANGED <<generatorVars, progressionVars, idVars, contextVars,
                 controllerVars>>

\* ChallengeController: hide, then onCancel; handleChallengeCancel
ChallengeCancel ==
    /\ caller = NoCaller
    /\ presented # NotPresented
    /\ presented' = NotPresented
    /\ IF previousPosition = <<>>
       THEN UNCHANGED <<session, previousPosition, lastChallengeKey, mobTimers>>
       ELSE /\ session' = [session EXCEPT !.player.currentPosition = previousPosition]
            /\ previousPosition' = <<>>
            /\ lastChallengeKey' = NoKey
            /\ mobTimers' = resumeMovement(mobTimers)
    /\ UNCHANGED <<phase, levelOverlay, resetAnimation, caller>>
    /\ UNCHANGED <<generatorVars, progressionVars, idVars, contextVars,
                 controllerVars>>

\* LevelOverlayController: the continue button; advanceToNextMap up to the
\* call of generateTileMap
AdvanceToNextMap ==
    /\ caller = NoCaller
    /\ levelOverlay
    /\ Len(session.player.completedMaps) < MaxCompletedMaps
    /\ levelOverlay' = FALSE
    /\ caller' = [function |-> "advanceToNextMap",
                  difficulty |-> getNextDifficulty(session.currentMap.difficulty),
                  width |-> FIXED_MAP_SIZE, height |-> FIXED_MAP_SIZE,
                  currency |-> 0]
    /\ UNCHANGED <<phase, session, previousPosition, lastChallengeKey, presented,
                   mobTimers, resetAnimation>>
    /\ UNCHANGED <<generatorVars, progressionVars, idVars, contextVars,
                 controllerVars>>

\* LevelOverlayController: the menu button; onMapComplete
OverlayMenu ==
    /\ caller = NoCaller
    /\ levelOverlay
    /\ ShowMenu

\* ShopController: SHOP_ITEMS, the price of each item
SHOP_ITEMS ==
    [x \in {"hint-pack", "streak-boost", "coin-multiplier", "skip-challenge"} |->
        CASE x = "hint-pack" -> 50
          [] x = "streak-boost" -> 100
          [] x = "coin-multiplier" -> 150
          [] x = "skip-challenge" -> 200]

MultiplierCharges == 5      \* charges that a coin-multiplier adds

\* ShopController: the buy button of `item` in a shop panel just shown, and
\* MainScene.handlePurchase
HandlePurchase(item) ==
    /\ caller = NoCaller
    /\ phase = "play"
    /\ session # NullSession
    /\ IF session.player.currency >= SHOP_ITEMS[item]
       THEN session' = [session EXCEPT
                          !.player.currency = @ - SHOP_ITEMS[item],
                          !.player.coinMultiplierCharges =
                              IF item = "coin-multiplier"
                              THEN @ + MultiplierCharges ELSE @]
       ELSE UNCHANGED session
    /\ UNCHANGED <<phase, previousPosition, lastChallengeKey, presented,
                   levelOverlay, mobTimers, resetAnimation, caller>>
    /\ UNCHANGED <<generatorVars, progressionVars, idVars, contextVars,
                 controllerVars>>

\* The onSuccess callback of a presentation fires once more, after the mob
\* (k >= 1) or the boss (k = 0) it was made for has been completed
SuccessCallbackAgain(k) ==
    /\ caller = NoCaller
    /\ phase = "play"
    /\ session # NullSession
    /\ presented = NotPresented
    /\ IF k = 0
       THEN /\ session.currentMap.tiles[session.currentMap.bossPosition].isBossDefeated
            /\ completeBossChallenge
       ELSE /\ k \in 1..Len(session.currentMap.mobs)
            /\ session.currentMap.mobs[k].isCompleted
            /\ completeMobChallenge(k)
    /\ UNCHANGED <<phase, presented, resetAnimation, caller>>
    /\ UNCHANGED <<generatorVars, progressionVars, idVars, contextVars,
                 controllerVars>>

CorridorWidth == 2      \* the saved map is CorridorWidth x CorridorHeight
CorridorHeight == 4     \* or CorridorHeight x CorridorWidth

SavedCoins == 150       \* the coins of the saved wallet

\* The Phaser game with its shop, continued from a saved session on an
\* expert map
NextShop ==
    \/ LoadExistingSession(CorridorWidth, CorridorHeight, "expert", SavedCoins)
    \/ GenerateTileMapGame
    \/ CarveInto
    \/ CarveBacktrack
    \/ EnsureEndpoints
    \/ AssembleTiles(OneId)
    \/ GenerateMob(MaxPlaced, OneId)
    \/ ReturnMap
    \/ ReturnToCaller
    \/ ContinueSession
    \/ \E direction \in Direction : MovePlayer(direction)
    \/ ChallengeSuccess
    \/ ChallengeFailure
    \/ ResetAnimationComplete
    \/ AdvanceToNextMap
    \/ \E item \in DOMAIN SHOP_ITEMS : HandlePurchase(item)
    \/ \E k \in 0..MobCount : SuccessCallbackAgain(k)

SpecShop == Init /\ [][NextShop]_vars

\* The Phaser game on one saved map with three mobs whose timers fire
NextMobs ==
    \/ \E size \in {<<CorridorWidth, CorridorHeight>>,
                    <<CorridorHeight, CorridorWidth>>} :
          LoadExistingSession(size[1], size[2], "expert", 0)
    \/ GenerateTileMapGame
    \/ CarveInto
    \/ CarveBacktrack
    \/ EnsureEndpoints
    \/ AssembleTiles(OneId)
    \/ GenerateMob(MaxPlaced, OneId)
    \/ ReturnMap
    \/ ReturnToCaller
    \/ ContinueSession
    \/ \E direction \in Direction : MovePlayer(direction)
    \/ \E k \in 1..MobCount : MoveSingleMob(k)
    \/ ChallengeSuccess
    \/ ChallengeFailure
    \/ ResetAnimationComplete
    \/ ChallengeCancel

SpecMobs == Init /\ [][NextMobs]_vars

-----------------------------------------------------------------------------
(* The React game: the reducer of GameContext.tsx, which keeps its own      *)
(* generateTileMap inline, and the handlers of GamePage.tsx that dispatch   *)
(* to it.  A handler reads the state of the render it was created in, so    *)
(* what it reads after a dispatch is the state before it.                   *)

ContextMapSize == 2     \* getRecommendedMapSize returns this width and height

\* difficultySettings[level].density, in hundredths
density ==
    [infant |-> 8, toddler |-> 12, beginner |-> 15, easy |-> 20,
     medium |-> 25, hard |-> 30, expert |-> 35]

\* difficultySettings[level].reward
reward ==
    [infant |-> 5, toddler |-> 8, beginner |-> 10, easy |-> 15,
     medium |-> 25, hard |-> 40, expert |-> 60]

\* generateMaze: the sets of cells that the backtracking from the cell on
\* top of stk, with the cells of `visited` visited, can leave open
RECURSIVE generateMaze(_, _, _, _, _)
generateMaze(opened, visited, stk, w, h) ==
    IF stk = <<>> THEN {opened}
    ELSE LET c == stk[Len(stk)]
             neighbors == {dir \in deltas :
                             /\ isValid(c[1] + dir[1] * 2, c[2] + dir[2] * 2, w, h)
                             /\ <<c[1] + dir[1] * 2, c[2] + dir[2] * 2>> \notin visited}
         IN  IF neighbors = {}
             THEN generateMaze(opened, visited, SubSeq(stk, 1, Len(stk) - 1), w, h)
             ELSE UNION {generateMaze(
                             opened \cup {<<c[1] + dir[1] * 2, c[2] + dir[2] * 2>>,
                                          <<c[1] + dir[1], c[2] + dir[2]>>},
                             visited \cup {<<c[1] + dir[1] * 2, c[2] + dir[2] * 2>>},
                             Append(stk, <<c[1] + dir[1] * 2, c[2] + dir[2] * 2>>),
                             w, h) : dir \in neighbors}

\* connectToNearestPath, the search: the first accessible cell other than
\* `from` that the queue yields, <<>> when it runs empty
RECURSIVE nearestAccessible(_, _, _, _, _, _)
nearestAccessible(queue, visited, accessible, from, w, h) ==
    IF queue = <<>> THEN <<>>
    ELSE LET c == Head(queue)
             order == << <<0, -1>>, <<1, 0>>, <<0, 1>>, <<-1, 0>> >>
             around == [k \in 1..4 |-> <<c[1] + order[k][1], c[2] + order[k][2]>>]
             Fresh(n) == isValid(n[1], n[2], w, h) /\ n \notin visited
             added == SelectSeq(around, Fresh)
         IN  IF c \in accessible /\ c # from THEN c
             ELSE nearestAccessible(Tail(queue) \o added,
                                    visited \cup {added[k] : k \in 1..Len(added)},
                                    accessible, from, w, h)

\* connectToNearestPath, the path: the cells from `from` along x and then
\* along y up to, not including, `to`
pathCells(from, to) ==
    ({<<x, from[2]>> : x \in Min(from[1], to[1])..Max(from[1], to[1])}
        \cup {<<to[1], y>> : y \in Min(from[2], to[2])..Max(from[2], to[2])})
    \ {to}

\* connectToNearestPath: the accessible cells after the call
connectToNearestPath(accessible, from, w, h) ==
    LET found == nearestAccessible(<<from>>, {from}, accessible, from, w, h)
    IN  IF found = <<>> THEN accessible
        ELSE accessible \cup pathCells(from, found)

\* The accessible cells of the map before the extra openings
connectedMazes(w, h) ==
    LET center == <<w \div 2, h \div 2>>
        start == <<0, h - 1>>
        boss == <<w - 1, 0>>
    IN  {connectToNearestPath(
             connectToNearestPath(m \cup {start}, start, w, h) \cup {boss},
             boss, w, h) : m \in generateMaze({center}, {center}, <<center>>, w, h)}

\* The extra openings: Math.floor(width * height * 0.1) random cells, each
\* opened if its tile is blocked
extraOpenings(accessible, w, h) ==
    {accessible \cup extra : extra \in
        {e \in SUBSET (Grid(w, h) \ accessible) : Cardinality(e) <= (w * h) \div 10}}

\* The tiles that get a challenge: each accessible empty tile other than
\* start and boss with probability 0.25, in row order, while fewer than
\* Math.floor(width * height * density) are placed
challengeTiles(accessible, w, h, d) ==
    {chosen \in SUBSET (accessible \ {<<0, h - 1>>, <<w - 1, 0>>}) :
        Cardinality(chosen) <= (w * h * density[d]) \div 100}

\* The id of a challenge, unique on its map: the boss, or the count of the
\* challenges placed before it in row order
challengeId(g, chosen, w, h) ==
    IF g = <<w - 1, 0>> THEN <<"boss">>
    ELSE IF g \in chosen
    THEN <<"challenge",
           Cardinality({c \in chosen : c[2] < g[2] \/ (c[2] = g[2] /\ c[1] < g[1])})>>
    ELSE <<>>

\* generateTileMap of GameContext.tsx: the map with these accessible cells
\* and these challenge tiles
inlineMap(mapId, w, h, d, accessible, chosen) ==
    LET boss == <<w - 1, 0>>
        bossDifficulty == getNextDifficultyInline(d)
    IN  [id |-> mapId, width |-> w, height |-> h, difficulty |-> d,
         tiles |-> [g \in Grid(w, h) |->
             [type |-> IF g = boss THEN "boss"
                       ELSE IF g \in chosen THEN "challenge"
                       ELSE IF g \in accessible THEN "empty"
                       ELSE "blocked",
              isAccessible |-> g \in accessible,
              challenge |-> IF g = boss
                            THEN [difficulty |-> bossDifficulty,
                                  reward |-> reward[bossDifficulty] * 3]
                            ELSE IF g \in chosen
                            THEN [difficulty |-> d, reward |-> reward[d]]
                            ELSE NoChallenge,
              challengeId |-> challengeId(g, chosen, w, h),
              isCompleted |-> FALSE]],
         mobs |-> <<>>,
         startPosition |-> <<0, h - 1>>,
         bossPosition |-> boss]

\* generateTileMap of GameContext.tsx: the maps it can return
generateTileMapInline(mapId, w, h, d) ==
    UNION {UNION {{inlineMap(mapId, w, h, d, accessible, chosen) :
                      chosen \in challengeTiles(accessible, w, h, d)} :
                  accessible \in extraOpenings(m, w, h)} :
           m \in connectedMazes(w, h)}

\* gameReducer MOVE_PLAYER: the position after the move
movePlayerInline(direction, map, position) ==
    LET x == position[1]
        y == position[2]
        newPosition ==
            CASE direction = "up"    -> <<x, Max(0, y - 1)>>
              [] direction = "down"  -> <<x, Min(map.height - 1, y + 1)>>
              [] direction = "left"  -> <<Max(0, x - 1), y>>
              [] direction = "right" -> <<Min(map.width - 1, x + 1), y>>
    IN  IF ~map.tiles[newPosition].isAccessible THEN position ELSE newPosition

\* gameReducer COMPLETE_CHALLENGE: in each row the first tile whose
\* challenge has this id is marked completed
completeChallenge(sess, id) ==
    LET map == sess.currentMap
        marked == {g \in DOMAIN map.tiles :
                     /\ map.tiles[g].challengeId = id
                     /\ \A x \in 0..(g[1] - 1) :
                           map.tiles[<<x, g[2]>>].challengeId # id}
    IN  [sess EXCEPT !.currentMap.tiles =
            [g \in DOMAIN map.tiles |->
                IF g \in marked THEN [map.tiles[g] EXCEPT !.isCompleted = TRUE]
                ELSE map.tiles[g]]]

\* gameReducer COMPLETE_MAP: the sessions it can return
completeMap(sess) ==
    LET nextDifficulty == getNextDifficultyInline(sess.currentMap.difficulty)
    IN  {[player |-> [sess.player EXCEPT
                         !.currentPosition = newMap.startPosition,
                         !.completedMaps = Append(@, sess.currentMap.id)],
          currentMap |-> newMap] :
         newMap \in generateTileMapInline(Len(sess.player.completedMaps) + 2,
                       ContextMapSize, ContextMapSize, nextDifficulty)}

\* GamePage.checkMapCompletion: no tile of the map has a challenge that is
\* not completed
allCompleted(map) ==
    \A g \in DOMAIN map.tiles :
        map.tiles[g].challengeId = <<>> \/ map.tiles[g].isCompleted

\* HomePage starts the first game: gameReducer START_GAME
StartGame ==
    /\ GameIdle
    /\ ContextIdle
    /\ pc = "idle"
    /\ state' \in {NewSession(map) :
                     map \in generateTileMapInline(1, ContextMapSize,
                                                   ContextMapSize, "infant")}
    /\ currentChallenge' = <<>>
    /\ UNCHANGED <<generatorVars, progressionVars, idVars, gameVars,
                 controllerVars>>

\* GamePage.handlePlayerMove: MOVE_PLAYER, then the challenge of the tile
\* that getNewPosition finds is put in the modal
HandlePlayerMove(direction) ==
    LET map == state.currentMap
        position == state.player.currentPosition
        moved == movePlayerInline(direction, map, position)
    IN  /\ state # NullSession
        /\ state' = [state EXCEPT !.player.currentPosition = moved]
        /\ currentChallenge' =
              IF /\ moved # position
                 /\ map.tiles[moved].challengeId # <<>>
                 /\ ~map.tiles[moved].isCompleted
              THEN map.tiles[moved].challengeId
              ELSE currentChallenge
        /\ UNCHANGED <<generatorVars, progressionVars, idVars, gameVars,
                 controllerVars>>

\* GamePage.handleTileClick
HandleTileClick(position) ==
    LET tile == state.currentMap.tiles[position]
    IN  /\ state # NullSession
        /\ position \in DOMAIN state.currentMap.tiles
        /\ tile.isAccessible
        /\ tile.challengeId # <<>>
        /\ ~tile.isCompleted
        /\ currentChallenge' = tile.challengeId
        /\ UNCHANGED <<state, generatorVars, progressionVars, idVars, gameVars,
                 controllerVars>>

\* GamePage.handleChallengeSubmit with the correct answer:
\* COMPLETE_CHALLENGE, then checkMapCompletion and COMPLETE_MAP if it finds
\* every challenge completed.  checkMapCompletion reads the map of the
\* render the handler was created in; the reducer writes the tile into the
\* rows that map shares with the new state, so what it reads is the map
\* before the write or after it, as React has run the reducer or not.
HandleChallengeSubmit ==
    LET completed == completeChallenge(state, currentChallenge)
    IN  /\ state # NullSession
        /\ currentChallenge # <<>>
        /\ \E seen \in {state.currentMap, completed.currentMap} :
              IF allCompleted(seen)
              THEN /\ Len(state.player.completedMaps) < MaxCompletedMaps
                   /\ state' \in completeMap(completed)
              ELSE state' = completed
        /\ currentChallenge' = <<>>
        /\ UNCHANGED <<generatorVars, progressionVars, idVars, gameVars,
                 controllerVars>>

\* GamePage.handleChallengeClose, or a wrong answer followed by it
HandleChallengeClose ==
    /\ state # NullSession
    /\ currentChallenge # <<>>
    /\ currentChallenge' = <<>>
    /\ UNCHANGED <<state, generatorVars, progressionVars, idVars, gameVars,
                 controllerVars>>

\* generateTileMap called on its own, as in SPECIFICATION Spec
GenerateTileMapAlone ==
    /\ GameIdle
    /\ ContextIdle
    /\ GenerateTileMap

\* The steps of the generator, called on its own or by the Phaser game, of
\* the Phaser game and of the React game; a behaviour runs one of the three.  On the 2 x 2 map of the game carvePath has no cell two steps away
\* to carve into, ensureEndpoints leaves start and boss connected through the
\* cell between them, and addExtraOpenings has Math.floor(4 * 0.1) = 0
\* openings to add.
NextGame ==
    \/ GenerateTileMapAlone
    \/ \E d \in DifficultyLevel : SavedSession(d)
    \/ StartNewGame
    \/ GenerateTileMapGame
    \/ CarveInto
    \/ CarveBacktrack
    \/ EnsureEndpoints
    \/ FallbackStep
    \/ FallbackDone
    \/ ExtraOpening
    \/ AssembleTiles(OneId)
    \/ PlaceChallenge(MaxPlaced, OneId)
    \/ GenerateMob(MaxPlaced, OneId)
    \/ ReturnMap
    \/ ReturnToCaller
    \/ RaiseToCaller
    \/ ContinueSession
    \/ MenuShortcut
    \/ \E direction \in Direction : MovePlayer(direction)
    \/ \E k \in 1..MobCount : MoveSingleMob(k)
    \/ ChallengeSuccess
    \/ ChallengeFailure
    \/ ResetAnimationComplete
    \/ ChallengeCancel
    \/ AdvanceToNextMap
    \/ OverlayMenu
    \/ StartGame
    \/ \E direction \in Direction : HandlePlayerMove(direction)
    \/ \E position \in Grid(ContextMapSize, ContextMapSize) : HandleTileClick(position)
    \/ HandleChallengeSubmit
    \/ HandleChallengeClose

SpecGame == Init /\ [][NextGame]_vars

-----------------------------------------------------------------------------
(* ChallengeController.present with the number pad, on its own: the keys    *)
(* and buttons of one presentation, and the callbacks it invokes.  The      *)
(* controller of part_001 reports a failure at once; the one kept in        *)
(* NumberPad.ts shows the penalty first and reports the failure through     *)
(* scene.time.delayedCall(2000, ...).                                       *)

MaxAttempts == 3    \* submissions of a number the model follows

InputLimit == 6     \* if (context.inputValue.length >= 6) return

Digits == {"0", "1"}

Keys == Digits \cup {"-"}

\* The challenges presented: correctAnswer and reward
Challenges == [correctAnswer : {-1, 0, 10}, reward : {5, 8}]

DigitValue(key) == CHOOSE n \in 0..9 : ToString(n) = key

RECURSIVE Decimal(_)
Decimal(s) ==
    IF s = <<>> THEN 0
    ELSE 10 * Decimal(SubSeq(s, 1, Len(s) - 1)) + DigitValue(s[Len(s)])

\* Number(trimmed) for a string of digits with at most a leading minus;
\* Number("-") is NaN and Number("") is 0
Number(s) ==
    IF s = <<>> THEN [finite |-> TRUE, value |-> 0]
    ELSE IF s = <<"-">> THEN [finite |-> FALSE, value |-> 0]
    ELSE IF Head(s) = "-" THEN [finite |-> TRUE, value |-> 0 - Decimal(Tail(s))]
    ELSE [finite |-> TRUE, value |-> Decimal(s)]

Callback(name, penalty) == [callback |-> name, penalty |-> penalty]

\* ChallengeController.hide
hide ==
    /\ context' = NoContext
    /\ active' = FALSE

\* ChallengeController.present(tile, callbacks) by a controller of kind v
Present(v, c) ==
    /\ GameIdle
    /\ ContextIdle
    /\ pc = "idle"
    /\ ~active
    /\ delayedCalls = <<>>
    /\ invoked = <<>>
    /\ controller' = v
    /\ active' = TRUE
    /\ context' = [challenge |-> c, attempts |-> 0, inputValue |-> <<>>,
                   hint |-> FALSE]
    /\ UNCHANGED <<delayedCalls, invoked>>
    /\ UNCHANGED <<generatorVars, progressionVars, idVars, gameVars, contextVars>>

\* handleKeyDown on a digit or a minus, and handleNumberPress of the pad
HandleKeyDown(key) ==
    /\ context # NoContext
    /\ key \in Digits \/ (key = "-" /\ Len(context.inputValue) = 0)
    /\ Len(context.inputValue) < InputLimit
    /\ context' = [context EXCEPT !.inputValue = Append(@, key)]
    /\ UNCHANGED <<controller, active, delayedCalls, invoked>>
    /\ UNCHANGED <<generatorVars, progressionVars, idVars, gameVars, contextVars>>

\* handleKeyDown on Backspace, and handleBackspace of the pad
HandleBackspace ==
    /\ context # NoContext
    /\ context' = [context EXCEPT !.inputValue =
                       SubSeq(@, 1, Max(Len(@) - 1, 0))]
    /\ UNCHANGED <<controller, active, delayedCalls, invoked>>
    /\ UNCHANGED <<generatorVars, progressionVars, idVars, gameVars, contextVars>>

\* A submission that counts an empty or non-numeric input as an attempt
AttemptSubmitCountsEveryInput ==
    /\ context # NoContext
    /\ context.attempts < MaxAttempts
    /\ context' = [context EXCEPT !.attempts = @ + 1]
    /\ UNCHANGED <<controller, active, delayedCalls, invoked>>
    /\ UNCHANGED <<generatorVars, progressionVars, idVars, gameVars, contextVars>>

\* attemptSubmit: the Enter key, the submit key of the pad, the submit button
AttemptSubmit ==
    LET trimmed == context.inputValue
        numericAnswer == Number(trimmed)
        c == context.challenge
        attempts == context.attempts + 1
    IN  /\ context # NoContext
        /\ context.attempts < MaxAttempts
        /\ IF trimmed = <<>> \/ ~numericAnswer.finite
           THEN UNCHANGED <<active, context, delayedCalls, invoked>>
           ELSE IF numericAnswer.value = c.correctAnswer
           THEN /\ invoked' = Append(invoked, Callback("onSuccess", 0))
                /\ hide
                /\ UNCHANGED delayedCalls
           ELSE IF attempts >= 2
           THEN IF controller = "immediate"
                THEN /\ hide
                     /\ invoked' = Append(invoked, Callback("onFailure", c.reward))
                     /\ UNCHANGED delayedCalls
                ELSE /\ context' = [context EXCEPT !.attempts = attempts,
                                                   !.hint = TRUE]
                     /\ delayedCalls' = Append(delayedCalls, c.reward)
                     /\ UNCHANGED <<active, invoked>>
           ELSE /\ context' = [context EXCEPT !.attempts = attempts,
                                              !.hint = TRUE,
                                              !.inputValue = <<>>]
                /\ UNCHANGED <<active, delayedCalls, invoked>>
        /\ UNCHANGED controller
        /\ UNCHANGED <<generatorVars, progressionVars, idVars, gameVars, contextVars>>

\* NumberPad.ts: handleKeyDown on Escape, and the cancel button
Cancel ==
    /\ controller = "delayed"
    /\ context # NoContext
    /\ hide
    /\ invoked' = Append(invoked, Callback("onCancel", 0))
    /\ UNCHANGED <<controller, delayedCalls>>
    /\ UNCHANGED <<generatorVars, progressionVars, idVars, gameVars, contextVars>>

\* NumberPad.ts: the function given to delayedCall runs
DelayedCallFires ==
    /\ delayedCalls # <<>>
    /\ delayedCalls' = Tail(delayedCalls)
    /\ hide
    /\ invoked' = Append(invoked, Callback("onFailure", Head(delayedCalls)))
    /\ UNCHANGED controller
    /\ UNCHANGED <<generatorVars, progressionVars, idVars, gameVars, contextVars>>

NextController ==
    \/ \E v \in {"immediate", "delayed"}, c \in Challenges : Present(v, c)
    \/ \E key \in Keys : HandleKeyDown(key)
    \/ HandleBackspace
    \/ AttemptSubmit
    \/ Cancel
    \/ DelayedCallFires

SpecController == Init /\ [][NextController]_vars

-----------------------------------------------------------------------------
(* Properties *)

Ended == pc \in {"done", "raised"}

Assembled == call = "generateTileMap" /\ pc \in {"place", "done"}

AccessibleTiles == {g \in DOMAIN tiles : tiles[g].isAccessible}

\* The tiles a walk over 4-adjacent accessible tiles reaches from startPosition
ReachableTiles ==
    IF StartPosition(height) \in AccessibleTiles
    THEN ReachFrom(AccessibleTiles, {StartPosition(height)})
    ELSE {}

StartBossConnected ==
    /\ StartPosition(height) \in AccessibleTiles
    /\ BossPosition(width) \in ReachableTiles

\* C1: for every width >= 2, height >= 2 and tier, generateTileMap returns a
\* map whose start and boss tiles are joined by a path of accessible tiles.
C1_ReturnsConnectedMap ==
    (call = "generateTileMap" /\ Ended /\ width >= 2 /\ height >= 2)
        => (pc = "done" /\ StartBossConnected)

\* What holds of C1: a map that is returned has start and boss connected.
C1_ConnectedWhenAssembled ==
    (Assembled /\ width >= 2 /\ height >= 2) => StartBossConnected

\* C2: every tile of type challenge, every mob's initial position and the
\* boss tile are reachable from startPosition over accessible tiles.  Stated
\* from the moment the tiles are assembled: a challenge or mob that is placed
\* stays where it is until the map is returned.
C2_ChallengesReachable ==
    Assembled =>
        /\ \A g \in DOMAIN tiles :
              tiles[g].type \in {"challenge", "boss"} => g \in ReachableTiles
        /\ \A k \in 1..Len(mobs) : mobs[k].position \in ReachableTiles

\* C3: generateTileMap completes without raising for every tier and returns
\* a map of height rows of width tiles with the boss on bossPosition.  Stated
\* for the sizes the claim's example is one of: a width of at least 2 and an
\* even height.
C3_CompletesForEveryTier ==
    (call = "generateTileMap" /\ width >= 2 /\ height % 2 = 0) =>
        /\ pc # "raised"
        /\ error = "none"
        /\ pc = "done" =>
              /\ DOMAIN tiles = Grid(width, height)
              /\ tiles[BossPosition(width)].type = "boss"

\* C4: for width >= 2 and height >= 2 every cell generateMazePaths reads or
\* writes lies inside the width x height grid.
C4_CellsInBounds ==
    (call = "generateTileMap" /\ width >= 2 /\ height >= 2) => oob = {}

\* C5: for width < 2 or height < 2 generateTileMap returns a map with start
\* and boss accessible and connected, never raising and never indexing a
\* cell outside the grid.
C5_DegenerateMaps ==
    (call = "generateTileMap" /\ (width < 2 \/ height < 2)) =>
        /\ pc # "raised"
        /\ oob = {}
        /\ pc = "done" => StartBossConnected

\* C6: no regular challenge sits on startPosition or bossPosition: the start
\* tile never has type challenge, the boss tile carries the boss challenge
\* only, and no mob starts on startPosition or bossPosition.
C6_NoChallengeOnStartOrBoss ==
    Assembled =>
        /\ tiles[StartPosition(height)].type # "challenge"
        /\ tiles[BossPosition(width)].type = "boss"
        /\ tiles[BossPosition(width)].challenge = BossSummary(difficulty)
        /\ \A k \in 1..Len(mobs) :
              mobs[k].position \notin {StartPosition(height), BossPosition(width)}

\* A returned map with a challenge tile, or a mob, next to the start tile
C6_Witness ==
    /\ call = "generateTileMap"
    /\ pc = "done"
    /\ \/ \E g \in DOMAIN tiles :
             tiles[g].type = "challenge" /\ Adjacent(StartPosition(height), g)
       \/ \E k \in 1..Len(mobs) : Adjacent(BossPosition(width), mobs[k].position)

Produced == pc \in {"regularChallenge", "bossChallenge"}

\* C7: a produced challenge has exactly two operands and correctAnswer equal
\* to calculateAnswer(operation, operands); for a division the divisor is
\* not zero and divides the dividend, so the answer is an integer.
C7_ChallengeWellFormed ==
    Produced =>
        /\ Len(challenge.operands) = 2
        /\ challenge.correctAnswer =
              calculateAnswer(challenge.operation, challenge.operands)
        /\ challenge.operation = "division" =>
              /\ challenge.operands[2] # 0
              /\ challenge.operands[1] % challenge.operands[2] = 0
              /\ IsInteger(challenge.correctAnswer)

\* A boss division challenge with a divisor above 1 and a quotient above 1
C7_Witness ==
    /\ pc = "bossChallenge"
    /\ challenge.operation = "division"
    /\ challenge.operands[2] > 1
    /\ challenge.correctAnswer.num > 1

\* C8: the correctAnswer of a subtraction challenge is the absolute
\* difference of its operands, so it is never negative.
C8_SubtractionAbsolute ==
    (Produced /\ challenge.operation = "subtraction") =>
        /\ challenge.correctAnswer =
              Num(Abs(challenge.operands[1] - challenge.operands[2]))
        /\ challenge.correctAnswer.num >= 0

\* C9: both operands of a multiplication challenge lie in
\* [min, min(max, 12)] of the tier's range, so neither exceeds 12.
C9_MultiplicationCapped ==
    (Produced /\ challenge.operation = "multiplication") =>
        \A k \in 1..2 :
            /\ challenge.operands[k] >= ranges[challenge.difficulty].min
            /\ challenge.operands[k] <= Min(ranges[challenge.difficulty].max, 12)
            /\ challenge.operands[k] <= 12

\* C10: for a tier d, generateBossChallenge(d) yields a challenge of the tier after d
\* (expert for expert), with an operation allowed at that tier and 3 times
\* that tier's regular reward.
C10_BossChallenge ==
    (call = "generateBossChallenge" /\ pc # "idle"
        /\ difficulty \in DifficultyLevel) =>
        /\ pc = "bossChallenge"
        /\ challenge.difficulty = getNextDifficulty(difficulty)
        /\ \E k \in 1..Len(allowedOperationsByDifficulty[challenge.difficulty]) :
              allowedOperationsByDifficulty[challenge.difficulty][k]
                  = challenge.operation
        /\ challenge.reward = 3 * rewardMultipliers[getNextDifficulty(difficulty)]

\* What holds of C10: a boss challenge that is produced is as C10 says.
C10_BossChallengeWhenProduced ==
    pc = "bossChallenge" =>
        /\ challenge.difficulty = getNextDifficulty(difficulty)
        /\ challenge.reward = 3 * rewardMultipliers[getNextDifficulty(difficulty)]

-----------------------------------------------------------------------------
(* The boss challenge against the regular challenges of its map *)

\* The regular challenges on the map: those of the challenge tiles and of
\* the mobs
RegularOnMap ==
    {tiles[g].challenge : g \in {t \in DOMAIN tiles : tiles[t].type = "challenge"}}
        \cup {mobs[k].challenge : k \in 1..Len(mobs)}

BossOnMap == tiles[BossPosition(width)].challenge

\* C11: on every generated map the boss challenge belongs to a strictly
\* higher tier than every regular challenge of the map and has a strictly
\* greater reward.
C11_BossStrictlyHarder ==
    Assembled =>
        \A c \in RegularOnMap :
            /\ IndexOf(BossOnMap.difficulty) > IndexOf(c.difficulty)
            /\ BossOnMap.reward > c.reward

\* C11 as the code has it: the boss reward is strictly greater on every
\* map; the boss tier is strictly higher on every map below expert and is
\* expert, the tier of the regular challenges, on an expert map.
C11_BossHarderBelowExpert ==
    Assembled =>
        \A c \in RegularOnMap :
            /\ BossOnMap.reward > c.reward
            /\ c.difficulty = difficulty
            /\ difficulty # "expert" =>
                  IndexOf(BossOnMap.difficulty) = IndexOf(c.difficulty) + 1
            /\ difficulty = "expert" => BossOnMap.difficulty = c.difficulty

\* A returned expert map that carries a regular challenge
C11_Witness ==
    /\ call = "generateTileMap"
    /\ pc = "done"
    /\ difficulty = "expert"
    /\ RegularOnMap # {}

\* C12: getNextDifficulty never returns a tier below its argument: after n
\* applications from a tier the result is the tier n places further on, or
\* expert once that is reached, and expert stays expert; from infant that
\* is after 6 applications.
C12_ReachesExpertAndStays ==
    /\ current = difficultyProgression[
                    Min(IndexOf(first) + applications, Len(difficultyProgression))]
    /\ IndexOf(current) >= IndexOf(first)
    /\ (first = "infant" /\ applications >= 6) => current = "expert"
    /\ (first = "infant" /\ applications < 6) => current # "expert"

\* Seven applications from infant: expert was reached and kept
C12_Witness ==
    /\ first = "infant"
    /\ applications = 7
    /\ current = "expert"

\* C13: a difficulty string that is none of the seven tiers never makes the
\* lookup raise: generation proceeds with the settings of a default tier and
\* the challenge it yields is well formed.
C13_UnknownDifficultyFallsBack ==
    (difficulty \in UnknownDifficulty /\ pc # "idle") =>
        /\ pc # "raised"
        /\ error = "none"
        /\ Produced
        /\ challenge.difficulty \in DifficultyLevel
        /\ challenge.correctAnswer =
              calculateAnswer(challenge.operation, challenge.operands)

\* C14: the ids of the challenges of one generated map (boss, regular and
\* mob challenges) are pairwise distinct, whatever the clock reads and
\* whatever suffixes are drawn, also within one millisecond.
C14_ChallengeIdsDistinct ==
    Assembled =>
        \A a, b \in 1..Len(ids) : a # b => ids[a] # ids[b]

\* C15: carveFallbackPath is deterministic: for one grid, start and end it
\* opens the same set of cells on every run, whatever randomInt returns.
C15_FallbackDeterministic ==
    pc = "fallback" =>
        Cardinality(carveFallbackPath(StartPosition(height), BossPosition(width))) = 1

\* utils.getManhattanDistance
getManhattanDistance(pos1, pos2) == Abs(pos1[1] - pos2[1]) + Abs(pos1[2] - pos2[2])

\* The bounding rectangle of two cells
BoundingRectangle(a, b) ==
    {c \in Grid(width, height) :
        /\ c[1] >= Min(a[1], b[1]) /\ c[1] <= Min(a[1], b[1]) + Abs(a[1] - b[1])
        /\ c[2] >= Min(a[2], b[2]) /\ c[2] <= Min(a[2], b[2]) + Abs(a[2] - b[2])}

\* carveFallbackPath ran and its loop is over
FallbackFinished ==
    /\ call = "generateTileMap"
    /\ pc \in {"extras", "place", "done"}
    /\ cur = BossPosition(width)
    /\ cur # StartPosition(height)

\* C20: carveFallbackPath terminates.  Every iteration moves one cell along
\* one axis toward end, so the iterations made plus the Manhattan distance
\* left is the distance from start to end: the loop is over after exactly
\* that many iterations.  It opens only cells of the bounding rectangle of
\* start and end and leaves the two connected by open cells.
C20_FallbackTerminates ==
    LET start == StartPosition(height)
        end == BossPosition(width)
    IN  /\ pc = "fallback" =>
              /\ steps + getManhattanDistance(cur, end)
                    = getManhattanDistance(start, end)
              /\ cur \in BoundingRectangle(start, end)
              /\ cur \in maze
              /\ isPathAvailable(maze, start, cur, width, height)
              /\ cur # end =>
                    /\ FallbackCandidates(cur, end) # {}
                    /\ \A next \in FallbackCandidates(cur, end) :
                          getManhattanDistance(next, end)
                              = getManhattanDistance(cur, end) - 1
        /\ FallbackFinished =>
              /\ steps = getManhattanDistance(start, end)
              /\ isPathAvailable(maze, start, end, width, height)

\* The fallback corridor of a map of width 3 is finished after 3 or more
\* iterations
C20_Witness ==
    /\ FallbackFinished
    /\ width = 3
    /\ steps >= 3
    /\ pc = "extras"

\* C19: the number of regular challenges of a map is
\* floor(openCellCount x density(difficulty)), and the density factor of a
\* higher tier is larger than that of a lower tier, so on the same carved
\* grid a higher tier never receives fewer challenges.
C19_DensityIncreasesWithTier ==
    (Assembled /\ variant = "tiles" /\ width >= 2 /\ height >= 2) =>
        /\ challengeCount =
              (Cardinality(AccessibleTiles) * densityFactor(difficulty).num)
                  \div densityFactor(difficulty).den
        /\ \A lower \in DifficultyLevel :
              IndexOf(lower) < IndexOf(difficulty) =>
                  /\ densityFactor(lower).num * densityFactor(difficulty).den
                        < densityFactor(difficulty).num * densityFactor(lower).den
                  /\ (Cardinality(AccessibleTiles) * densityFactor(lower).num)
                          \div densityFactor(lower).den <= challengeCount

\* The tile invariants of a map with tiles ts
TilesWellFormed(ts, start, boss) ==
    /\ \A g \in DOMAIN ts :
          /\ ts[g].type = "blocked" => ~ts[g].isAccessible
          /\ ts[g].challenge # NoChallenge => ts[g].type \in {"challenge", "boss"}
    /\ ts[boss].type = "boss"
    /\ ts[start].isAccessible
    /\ ts[boss].isAccessible

\* C16: in every map that generateTileMap returned, and in the map of the
\* session after every step of either game on it, a blocked tile is not
\* accessible, only challenge and boss tiles carry a challenge, the tile at
\* bossPosition is the boss tile, and the tiles at startPosition and
\* bossPosition are accessible
C16_TileInvariants ==
    /\ pc = "done" =>
          TilesWellFormed(tiles, StartPosition(height), BossPosition(width))
    /\ session # NullSession =>
          TilesWellFormed(session.currentMap.tiles,
                          session.currentMap.startPosition,
                          session.currentMap.bossPosition)
    /\ state # NullSession =>
          TilesWellFormed(state.currentMap.tiles,
                          state.currentMap.startPosition,
                          state.currentMap.bossPosition)

\* A session whose player failed a challenge, then completed the mob and
\* defeated the boss, and stands on the boss tile
C16_Witness ==
    /\ session # NullSession
    /\ resetAnimation
    /\ \E k \in 1..Len(session.currentMap.mobs) :
          session.currentMap.mobs[k].isCompleted
    /\ session.currentMap.tiles[session.currentMap.bossPosition].isBossDefeated
    /\ session.player.currentPosition = session.currentMap.bossPosition
    /\ TilesWellFormed(session.currentMap.tiles,
                       session.currentMap.startPosition,
                       session.currentMap.bossPosition)

\* C17: after any sequence of new-game, move, challenge success, failure and
\* cancel and advance-to-next-map steps, the player's currentPosition lies
\* inside the bounds of the session's current map, on an accessible tile,
\* in the Phaser game and in the React game
C17_PlayerOnAccessibleTile ==
    \A sess \in {session, state} \ {NullSession} :
        LET map == sess.currentMap
            position == sess.player.currentPosition
        IN  /\ position \in Grid(map.width, map.height)
            /\ map.tiles[position].isAccessible

\* A session on its second map or a later one, whose player failed a
\* challenge there and has walked on from the start tile
C17_Witness ==
    /\ session # NullSession
    /\ phase = "play"
    /\ Len(session.player.completedMaps) >= 1
    /\ resetAnimation
    /\ session.player.currentPosition # session.currentMap.startPosition
    /\ session.currentMap.tiles[session.player.currentPosition].isAccessible
    /\ \E g \in DOMAIN session.currentMap.tiles :
          ~session.currentMap.tiles[g].isAccessible

\* mob.isCompleted of the mobs of a session's map, in order
MobFlags(sess) ==
    [k \in 1..Len(sess.currentMap.mobs) |-> sess.currentMap.mobs[k].isCompleted]

\* isBossDefeated of the boss tile of a session's map
BossFlag(sess) ==
    sess.currentMap.tiles[sess.currentMap.bossPosition].isBossDefeated

\* tile.isCompleted of the tiles of a session's map (GameContext.tsx)
TileFlags(sess) ==
    [g \in DOMAIN sess.currentMap.tiles |-> sess.currentMap.tiles[g].isCompleted]

\* C18: while a session stays on one map, a step changes a mob's
\* isCompleted, a tile's isCompleted and the boss tile's isBossDefeated only
\* from false to true; a failed or cancelled challenge changes none of them
C18_FlagsOnlyRise ==
    [][/\ (session # NullSession /\ ~ReturnToCaller) =>
             /\ \A k \in DOMAIN MobFlags(session) :
                   MobFlags(session)[k] => MobFlags(session)'[k]
             /\ BossFlag(session) => BossFlag(session)'
       /\ (state # NullSession /\ state'.currentMap.id = state.currentMap.id) =>
             \A g \in DOMAIN TileFlags(state) :
                 TileFlags(state)[g] => TileFlags(state)'[g]
       /\ (ChallengeFailure \/ ChallengeCancel) =>
             /\ MobFlags(session)' = MobFlags(session)
             /\ BossFlag(session)' = BossFlag(session)
       /\ HandleChallengeClose => TileFlags(state)' = TileFlags(state)]_vars

\* A session whose player completed the mob of the map and then failed the
\* boss challenge: the mob stays completed and the boss undefeated
C18_Witness ==
    /\ session # NullSession
    /\ \E k \in 1..Len(session.currentMap.mobs) :
          session.currentMap.mobs[k].isCompleted
    /\ ~BossFlag(session)
    /\ resetAnimation
    /\ session.player.currentPosition = session.currentMap.startPosition

-----------------------------------------------------------------------------
-----------------------------------------------------------------------------
\* generateMazePaths: <<startX, startY>>, the cell carvePath is called on
CarveStart ==
    <<IF 0 % 2 = 0 THEN 0 + 1 ELSE 0,
      IF (height - 1) % 2 = 0 THEN (height - 1) + 1 ELSE height - 1>>

\* The outermost call of carvePath has returned
CarveFinished == call = "generateTileMap" /\ pc = "carve" /\ stack = <<>>

\* The in-bounds cells of the stride-2 lattice through the carve start
Lattice ==
    {g \in Grid(width, height) :
        /\ g[1] % 2 = CarveStart[1] % 2
        /\ g[2] % 2 = CarveStart[2] % 2}

\* C22: when carvePath has finished, every in-bounds cell with the parities
\* of the carve start is open, and the open cells are one 4-connected region
\* without a cycle: a spanning tree of the stride-2 lattice, with exactly one
\* midpoint cell open for each edge of the tree.
C22_CarveSpanningTree ==
    CarveFinished =>
        LET nodes == Lattice \cup {CarveStart}
            midpoints == maze \ nodes
            adjacentPairs == {p \in maze \X maze : Adjacent(p[1], p[2])}
        IN  /\ Lattice \subseteq maze
            /\ ReachFrom(maze, {CarveStart}) = maze
            /\ Cardinality(adjacentPairs) = 2 * (Cardinality(maze) - 1)
            /\ Cardinality(midpoints) = Cardinality(nodes) - 1
            /\ \A m \in midpoints :
                  \E a \in nodes, b \in nodes :
                      /\ a # b
                      /\ <<b[1] - a[1], b[2] - a[2]>> \in directions
                      /\ m = <<(a[1] + b[1]) \div 2, (a[2] + b[2]) \div 2>>
                      /\ {n \in maze : Adjacent(m, n)} = {a, b}

\* carvePath has finished on a 4 x 4 map: four lattice cells, three midpoints
C22_Witness ==
    /\ CarveFinished
    /\ width = 4
    /\ height = 4
    /\ Cardinality(Lattice) = 4
    /\ Cardinality(maze) = 7

-----------------------------------------------------------------------------
\* C24: in the number-pad controller that reports a failure at once, a
\* submission that is empty or not a finite number is no attempt; a correct
\* number invokes onSuccess; the first wrong number shows the hint and keeps
\* the challenge open; the second wrong number hides the challenge and
\* invokes onFailure with the reward of the challenge as the penalty.
C24_SubmitOutcomes ==
    [][controller = "immediate" /\ AttemptSubmit =>
        LET numericAnswer == Number(context.inputValue)
            c == context.challenge
        IN  IF context.inputValue = <<>> \/ ~numericAnswer.finite
            THEN /\ context'.attempts = context.attempts
                 /\ active'
                 /\ invoked' = invoked
            ELSE IF numericAnswer.value = c.correctAnswer
            THEN invoked' = Append(invoked, Callback("onSuccess", 0))
            ELSE IF context.attempts = 0
            THEN /\ context'.hint
                 /\ context'.challenge = c
                 /\ active'
                 /\ invoked' = invoked
            ELSE /\ ~active'
                 /\ context' = NoContext
                 /\ invoked' = Append(invoked, Callback("onFailure", c.reward))]_vars

\* The second wrong answer has been reported, with the reward 8 as penalty
C24_Witness ==
    /\ controller = "immediate"
    /\ ~active
    /\ invoked = <<Callback("onFailure", 8)>>

\* C28: for one presentation by the controller that defers the failure with
\* delayedCall(2000, ...), at most one of onSuccess, onFailure and onCancel
\* is invoked, and at most once.
C28_AtMostOneCallback ==
    controller = "delayed" => Len(invoked) <= 1

\* C23: whatever rewards, purchases and failure penalties a session has
\* seen, the currency of its player is not negative.
C23_CurrencyNeverNegative == session.player.currency >= 0

\* The wallet was emptied by a coin-multiplier and a failure then asked for
\* a penalty it could not pay
C23_Witness ==
    /\ resetAnimation
    /\ session.player.currency = 0
    /\ session.player.coinMultiplierCharges = MultiplierCharges
    /\ session.player.totalChallengesCompleted = 0

\* The charges of the player
charges == session.player.coinMultiplierCharges

\* A challenge that is not completed yet is on screen
OpenChallengePresented ==
    /\ presented # NotPresented
    /\ IF presented.kind = "boss"
       THEN ~session.currentMap.tiles[session.currentMap.bossPosition].isBossDefeated
       ELSE ~session.currentMap.mobs[presented.mob].isCompleted

\* C27: a coin-multiplier that the player can pay adds 5 charges; a success
\* credits twice the reward and takes one charge while there are charges,
\* and the reward itself when there are none; a failure leaves the charges
\* alone; the charges are never negative.
C27_MultiplierCharges ==
    /\ [](charges >= 0)
    /\ [][(HandlePurchase("coin-multiplier")
            /\ session.player.currency >= SHOP_ITEMS["coin-multiplier"])
          => charges' = charges + 5]_vars
    /\ [][(ChallengeSuccess /\ OpenChallengePresented)
          => LET r == presentedChallenge(session, presented).reward
             IN  IF charges > 0
                 THEN /\ session'.player.currency = session.player.currency + 2 * r
                      /\ charges' = charges - 1
                 ELSE /\ session'.player.currency = session.player.currency + r
                      /\ charges' = 0]_vars
    /\ [][ChallengeFailure => charges' = charges]_vars

\* Six successes after one coin-multiplier bought with the saved coins: five
\* credited twice (60, 60, 60, 180, 60) and the sixth (180) at face value
C27_Witness ==
    /\ session.player.totalChallengesCompleted = 6
    /\ session.player.bestStreak = 4
    /\ session.player.currentStreak = 2
    /\ charges = 0
    /\ session.player.currency = 2 * (60 + 60 + 60 + 180 + 60) + 180

\* The mobs and the boss whose flag rises in a step
Risen ==
    {k \in 1..Len(session.currentMap.mobs) :
        /\ ~session.currentMap.mobs[k].isCompleted
        /\ session'.currentMap.mobs[k].isCompleted}
    \cup {k \in {0} :
        /\ ~session.currentMap.tiles[session.currentMap.bossPosition].isBossDefeated
        /\ session'.currentMap.tiles[session.currentMap.bossPosition].isBossDefeated}

\* The reward of mob k, or of the boss for k = 0
RewardOf(k) ==
    IF k = 0
    THEN session.currentMap.tiles[session.currentMap.bossPosition].challenge.reward
    ELSE session.currentMap.mobs[k].challenge.reward

\* C30: a step of a session that credits coins, or counts a challenge or
\* lengthens the streak, is the step that raises the flag of exactly one mob
\* or of the boss of the current map, and it counts one challenge, one step
\* of the streak and the reward of that mob or boss once or twice; the
\* success callback of a mob or boss whose flag is up changes nothing.
C30_CreditedOncePerMap ==
    /\ [][(/\ session # NullSession
           /\ \/ session'.player.currency > session.player.currency
              \/ session'.player.totalChallengesCompleted
                    # session.player.totalChallengesCompleted
              \/ session'.player.currentStreak > session.player.currentStreak)
          => /\ session'.currentMap.id = session.currentMap.id
             /\ Cardinality(Risen) = 1
             /\ \E k \in Risen :
                   session'.player.currency - session.player.currency
                       \in {RewardOf(k), 2 * RewardOf(k)}
             /\ session'.player.totalChallengesCompleted
                   = session.player.totalChallengesCompleted + 1
             /\ session'.player.currentStreak
                   = session.player.currentStreak + 1]_vars
    /\ [][(\E k \in 0..MobCount : SuccessCallbackAgain(k))
          => UNCHANGED session]_vars

\* Every mob and the boss of the first map is completed, nothing is on
\* screen, and each of them has been counted once
C30_Witness ==
    /\ phase = "play"
    /\ presented = NotPresented
    /\ session # NullSession
    /\ session.player.completedMaps = <<>>
    /\ session.currentMap.tiles[session.currentMap.bossPosition].isBossDefeated
    /\ Len(session.currentMap.mobs) = 3
    /\ \A k \in 1..Len(session.currentMap.mobs) :
          session.currentMap.mobs[k].isCompleted
    /\ session.player.totalChallengesCompleted = 4

\* C26: advanceToNextMap starts only on a map whose boss is defeated; when
\* it is over, the new map has the tier after the old map's, the id of the
\* old map is appended to completedMaps, the player stands on the start of
\* the new map, currentStreak is 0, and currency, bestStreak and
\* totalChallengesCompleted are what they were.
C26_AdvanceToNextMap ==
    /\ [][AdvanceToNextMap
          => session.currentMap.tiles[session.currentMap.bossPosition].isBossDefeated]_vars
    /\ [][(ReturnToCaller /\ caller.function = "advanceToNextMap")
          => /\ session.currentMap.tiles[session.currentMap.bossPosition].isBossDefeated
             /\ session'.currentMap.difficulty
                   = getNextDifficulty(session.currentMap.difficulty)
             /\ session'.player.completedMaps
                   = Append(session.player.completedMaps, session.currentMap.id)
             /\ session'.player.currentPosition = session'.currentMap.startPosition
             /\ session'.player.currentStreak = 0
             /\ session'.player.currency = session.player.currency
             /\ session'.player.bestStreak = session.player.bestStreak
             /\ session'.player.totalChallengesCompleted
                   = session.player.totalChallengesCompleted]_vars

\* The player has left a beginner map with a streak and coins and stands on
\* the start of the easy map that followed it
C26_Witness ==
    /\ phase = "play"
    /\ session.player.completedMaps = <<1>>
    /\ session.currentMap.id = 2
    /\ session.currentMap.difficulty = "easy"
    /\ session.player.currentPosition = session.currentMap.startPosition
    /\ session.player.currentStreak = 0
    /\ session.player.bestStreak >= 2
    /\ session.player.currency > 0
    /\ session.player.totalChallengesCompleted = session.player.bestStreak

\* The mobs of the current map that are not completed
Uncompleted ==
    {k \in 1..Len(session.currentMap.mobs) : ~session.currentMap.mobs[k].isCompleted}

\* C25: every mob that is not completed stands on a tile of the map that is
\* accessible and is not the boss tile, no two such mobs stand on the same
\* tile, and a mob none of whose four neighbours is a tile it may enter is
\* where it was after every step.
C25_MobsOnValidTiles ==
    /\ [](session # NullSession =>
            LET map == session.currentMap
            IN  /\ \A k \in Uncompleted :
                      /\ map.mobs[k].position \in Grid(map.width, map.height)
                      /\ map.tiles[map.mobs[k].position].isAccessible
                      /\ map.tiles[map.mobs[k].position].type # "boss"
                      /\ map.mobs[k].position # map.bossPosition
                /\ \A k, j \in Uncompleted :
                      k # j => map.mobs[k].position # map.mobs[j].position)
    /\ [][(session # NullSession /\ session'.currentMap.id = session.currentMap.id)
          => \A k \in Uncompleted :
                getRandomAdjacentPosition(session.currentMap,
                                          session.currentMap.mobs[k].position) = {}
                => session'.currentMap.mobs[k].position
                     = session.currentMap.mobs[k].position]_vars

\* The timers run, three mobs are not completed, one of them has left the
\* tile it was placed on for the start tile, and another has no tile to go to
C25_Witness ==
    /\ mobTimers = "running"
    /\ Cardinality(Uncompleted) = 3
    /\ \E k \in Uncompleted :
          session.currentMap.mobs[k].position = session.currentMap.startPosition
    /\ \E k \in Uncompleted :
          getRandomAdjacentPosition(session.currentMap,
                                    session.currentMap.mobs[k].position) = {}

\* MapProgressionManager.checkMapCompletion has nothing left that calls it:
\* the boss is defeated and every mob is completed, so checkForChallenge
\* presents nothing, and no challenge, reset animation or overlay is on
\* screen whose callback would call it.  A new game is the one call in
\* flight there can be.
Trapped ==
    /\ session # NullSession
    /\ caller.function \in {"none", "createNewSession"}
    /\ session.currentMap.tiles[session.currentMap.bossPosition].isBossDefeated
    /\ Uncompleted = {}
    /\ presented = NotPresented
    /\ ~resetAnimation
    /\ ~levelOverlay

\* No step of the game leaves Trapped, except the return of createNewSession
\* with the session of a new game: the level overlay is never shown again
\* for the map
TrappedStays ==
    [][Trapped => (Trapped' \/ (ReturnToCaller /\ caller.function = "createNewSession"))]_vars

\* C29: while the game is in the play phase on a map whose boss is defeated,
\* the level overlay can still be reached, that is, the game is not in a
\* state that every sequence of moves and challenge outcomes keeps without
\* the overlay.
C29_OverlayStillReachable ==
    (/\ phase = "play"
     /\ session # NullSession
     /\ caller = NoCaller
     /\ session.currentMap.tiles[session.currentMap.bossPosition].isBossDefeated)
    => ~Trapped

====
